---- MODULE Spec2Model ----
(***************************************************************************)
(* craftconnect API: the authentication / session engine (AuthService),    *)
(* its token, password and OTP utilities, the JSON record store, the       *)
(* error classes with the error middleware, and the in-memory rate         *)
(* limiters.                                                               *)
(*                                                                         *)
(* Time is a record [s, ms]: whole seconds since the epoch and the         *)
(* millisecond within the second.  Date.now() is s*1000+ms; the record     *)
(* keeps the 30-day lifetimes (2 592 000 000 ms) inside TLC's integers.    *)
(* Stored timestamps are ISO-8601 strings made by toISOString(); they keep *)
(* millisecond precision and, for four-digit years, order as the instants  *)
(* they denote, so a stored timestamp is modelled by its instant.          *)
(* Every `new Date()` / `Date.now()` read inside one handler run reads the *)
(* same clock value in the sequential specifications.                      *)
(***************************************************************************)
EXTENDS Integers, Sequences, FiniteSets, TLC

(***************************************************************************)
(* Bounds of the model                                                     *)
(***************************************************************************)
MaxOtps == 2
MaxSessions == 2
MaxHits == 12
\* config.rateLimit.max (RATE_LIMIT_MAX of the environment, 100 when unset)
RateLimitMax == 2
MaxInquiries == 2
MaxPortfolios == 16

(***************************************************************************)
(* Inputs                                                                  *)
(***************************************************************************)
NULL == "null"
Emails == {"a@b.com"}
Phones == {"9876543210"}
\* a password of 73 bytes that meets the password policy (passwordSchema
\* sets no maximum length), and one that differs from it in the last byte
LongPassword == "Aa1xxxxxxxxxxxxxxxxxxxxxxxxxxxxxxxxxxxxxxxxxxxxxxxxxxxxxxxxxxxxxxxxxxxxxy"
LongSibling == "Aa1xxxxxxxxxxxxxxxxxxxxxxxxxxxxxxxxxxxxxxxxxxxxxxxxxxxxxxxxxxxxxxxxxxxxxz"
Passwords == {"Secure123", LongPassword, LongSibling}
RegisterPasswords == {"Secure123", LongPassword}
\* an address of an account kept in the data files, never registered here
StoredEmail == "old@b.com"
LoginEmails == Emails \cup {StoredEmail}
Codes == {"111111", "222222"}
Salts == {1}

(***************************************************************************)
(* Time                                                                    *)
(***************************************************************************)
T(s, ms) == [s |-> s, ms |-> ms]
NoTime == [s |-> -1, ms |-> 0]
Before(a, b) == a.s < b.s \/ (a.s = b.s /\ a.ms < b.ms)
PlusSec(a, d) == [a EXCEPT !.s = @ + d]
\* Math.ceil((a - b) / 1000) for instants a, b
CeilSecs(a, b) == (a.s - b.s) + (IF a.ms > b.ms THEN 1 ELSE 0)

(***************************************************************************)
(* Configuration (defaults of config/index.ts)                             *)
(***************************************************************************)
JwtExpiresIn == 604800
JwtRefreshExpiresIn == 2592000
SessionTtl == 2592000
OtpExpirySeconds == 600
WindowSeconds == 900
AuthWindowSeconds == 900
AuthMaxRequests == 10
JwtSecret == "default-dev-secret-change-in-production"
\* one secret for both token classes
JwtRefreshSecret_Same == JwtSecret

JwtRefreshSecret == "default-refresh-secret-change"

(***************************************************************************)
(* Error classes (errors/AppError.ts) and the error middleware             *)
(***************************************************************************)
\* The prototype chain of an error object, as a set of class identities.
\* AppError's constructor ends with Object.setPrototypeOf(this,
\* AppError.prototype), so every subclass instance has exactly this chain.
ErrorsChain == {"errors/AppError", "Error"}

AppError(cls, message, statusCode, code) ==
    [cls |-> cls, name |-> "Error", message |-> message,
     statusCode |-> statusCode, code |-> code, chain |-> ErrorsChain]

NoError == [cls |-> "none", name |-> "", message |-> "",
            statusCode |-> 0, code |-> "", chain |-> {}]

BadRequestError(message) == AppError("BadRequestError", message, 400, "BAD_REQUEST")
UnauthorizedError(message) == AppError("UnauthorizedError", message, 401, "UNAUTHORIZED")
ForbiddenError(message) == AppError("ForbiddenError", message, 403, "FORBIDDEN")
NotFoundError(resource) == AppError("NotFoundError", resource \o " not found", 404, "NOT_FOUND")
ConflictError(message) == AppError("ConflictError", message, 409, "CONFLICT")
ValidationError(message) == AppError("ValidationError", "Validation failed", 422, "VALIDATION_ERROR")
RateLimitError(message) == AppError("RateLimitError", message, 429, "RATE_LIMIT_EXCEEDED")

\* An error that is no AppError at all (a programming error)
PlainError == [cls |-> "Error", name |-> "Error", message |-> "boom",
               statusCode |-> 0, code |-> "", chain |-> {"Error"}]

\* The class the middleware tests with instanceof is the AppError declared in
\* error.middleware.ts itself, not the one of errors/AppError.ts.
MiddlewareAppError == "middleware/AppError"

InstanceOf(err, class) == class \in err.chain

NoResponse == [status |-> 0, code |-> ""]

errorMiddleware(err) ==
    IF InstanceOf(err, MiddlewareAppError)
    THEN [status |-> err.statusCode, code |-> err.code]
    ELSE IF err.name = "JsonWebTokenError"
    THEN [status |-> 401, code |-> "INVALID_TOKEN"]
    ELSE IF err.name = "TokenExpiredError"
    THEN [status |-> 401, code |-> "TOKEN_EXPIRED"]
    ELSE IF err.name = "ZodError"
    THEN [status |-> 422, code |-> "VALIDATION_ERROR"]
    ELSE [status |-> 500, code |-> "INTERNAL_ERROR"]

(***************************************************************************)
(* JWT utilities (utils/jwt.ts).  jwt.sign with HS256 is a function of the *)
(* payload {userId, role, iat, exp} and the secret, and iat is the clock   *)
(* in whole seconds: two tokens are the same string iff these agree.       *)
(***************************************************************************)
Sign(userId, role, secret, expiresIn, now) ==
    [secret |-> secret, userId |-> userId, role |-> role,
     iat |-> now.s, exp |-> now.s + expiresIn]

NoToken == [secret |-> "none", userId |-> 0, role |-> "none", iat |-> 0, exp |-> 0]
\* A string that is no JWT of this server
GarbageToken == [secret |-> "garbage", userId |-> 0, role |-> "none", iat |-> 0, exp |-> 0]

generateAccessToken(userId, role, now) == Sign(userId, role, JwtSecret, JwtExpiresIn, now)
\* the refresh token signed for no user
generateRefreshToken_Anonymous(userId, role, now) == Sign(0, role, JwtRefreshSecret, JwtRefreshExpiresIn, now)

generateRefreshToken(userId, role, now) == Sign(userId, role, JwtRefreshSecret, JwtRefreshExpiresIn, now)

generateTokenPair(userId, role, now) ==
    [accessToken |-> generateAccessToken(userId, role, now),
     refreshToken |-> generateRefreshToken(userId, role, now)]

NoTokens == [accessToken |-> NoToken, refreshToken |-> NoToken]

\* jwt.verify: the signature must be made with the given secret and the
\* clock in seconds must be below exp; TRUE iff verification returns.
Verifies(token, secret, now) == token.secret = secret /\ now.s < token.exp
verifyAccessToken(token, now) == Verifies(token, JwtSecret, now)
verifyRefreshToken(token, now) == Verifies(token, JwtRefreshSecret, now)

(***************************************************************************)
(* Password utilities (utils/password.ts): bcrypt with a fresh salt.        *)
(* bcrypt keys its cipher with the first 72 bytes of the password (the     *)
(* key schedule reads 18 words of 4 bytes), so a hash is a function of the *)
(* salt and of that prefix.                                                *)
(***************************************************************************)
NoHash == <<>>
BcryptKeyBytes == 72
BcryptKey(password) ==
    IF Len(password) > BcryptKeyBytes THEN SubSeq(password, 1, BcryptKeyBytes) ELSE password
hashPassword(password, salt) == <<"$2a$12$", salt, BcryptKey(password)>>
comparePassword(password, hash) == Len(hash) = 3 /\ hash[3] = BcryptKey(password)

(***************************************************************************)
(* OTP utilities (utils/otp.ts)                                            *)
(***************************************************************************)
getOtpExpiry(now) == PlusSec(now, OtpExpirySeconds)
\* expired from the instant of expiry on
isOtpExpired_NonStrict(expiry, now) == ~Before(now, expiry)

isOtpExpired(expiry, now) == Before(expiry, now)

(***************************************************************************)
(* Record store (services/database.service.ts); a collection is the array  *)
(* of its records in insertion order.                                      *)
(***************************************************************************)
Min(S) == CHOOSE x \in S : \A y \in S : x <= y

\* findOne: the index of the first record among those at the matching
\* indices, 0 for null
FindIndex(matching) == IF matching = {} THEN 0 ELSE Min(matching)

\* Array.prototype.filter: the records at the kept indices, in order
Filter(records, kept) ==
    [k \in 1..Cardinality(kept) |->
        records[CHOOSE i \in kept : Cardinality({j \in kept : j < i}) = k - 1]]

\* the new record written over the last one
dbCreate_Overwrite(records, record) ==
    IF records = <<>> THEN <<record>> ELSE [records EXCEPT ![Len(records)] = record]

dbCreate(records, record) == Append(records, record)
\* deleteWhere keeps the records that do not match
dbDeleteWhere(records, matching) == Filter(records, (1..Len(records)) \ matching)
\* the record left in place
dbDelete_Keep(records, id) == records

dbDelete(records, id) ==
    LET i == FindIndex({k \in 1..Len(records) : records[k].id = id})
    IN IF i = 0 THEN records
       ELSE [k \in 1..(Len(records) - 1) |-> IF k < i THEN records[k] ELSE records[k + 1]]


(***************************************************************************)
(* Rate limiter state (middleware/rateLimiter.middleware.ts)               *)
(***************************************************************************)
\* An X-Forwarded-For header is the list of its comma-separated parts, each
\* a text with leading and trailing blanks; <<>> is the absent header.
Part(lead, text, trail) == [lead |-> lead, text |-> text, trail |-> trail]
Split(header) == header
Trim(part) == part.text

RemoteAddresses == {"1.1.1.1"}
ForgedForwarded == <<Part(0, "auth:1.1.1.1", 0)>>
ProxyForwarded == <<Part(1, "1.1.1.1", 1), Part(1, "10.0.0.1", 0)>>
Request(forwarded, remoteAddress) == [forwarded |-> forwarded, remoteAddress |-> remoteAddress]
\* requests arriving at the general limiter and at the auth routes
GeneralRequests == {Request(f, a) : f \in {<<>>, ForgedForwarded, ProxyForwarded}, a \in RemoteAddresses}
AuthRequests == {Request(f, a) : f \in {<<>>, ProxyForwarded}, a \in RemoteAddresses}

getClientIp(req) ==
    IF req.forwarded # <<>> THEN Trim(Split(req.forwarded)[1])
    ELSE IF req.remoteAddress # "" THEN req.remoteAddress
    ELSE "unknown"

AuthKey(ip) == "auth:" \o ip

Keys == {getClientIp(r) : r \in GeneralRequests} \cup {AuthKey(getClientIp(r)) : r \in AuthRequests}

\* store[key] is undefined
NoRecord == [count |-> 0, resetTime |-> NoTime]

\* The outcome of the last limiter call: which limiter, the client ip and
\* the key it counted, whether next() was called, the headers it set
\* (retryAfter -1: header not set) and the error it threw.
GateOutcome(limiter, ip, key, allowed, limit, remaining, reset, retryAfter, err) ==
    [limiter |-> limiter, ip |-> ip, key |-> key, allowed |-> allowed, limit |-> limit,
     remaining |-> remaining, reset |-> reset, retryAfter |-> retryAfter, err |-> err]

NoGate == GateOutcome("none", "", "", FALSE, 0, 0, 0, -1, NoError)

\* History of the running window of a key (tally): the end of the window,
\* the requests counted in it and how many of them were rejected.
NoTally == [resetTime |-> NoTime, requests |-> 0, rejected |-> 0]

(***************************************************************************)
(* Calls in flight.  A handler runs without interruption between two of    *)
(* its awaits; calls[c] is the call of client c that stands at an await,   *)
(* with what it has read so far: the record it selected (target), the      *)
(* number it read from it (seen) and the record it has built (made).       *)
(***************************************************************************)
Callers == {1, 2}
Call(op, ident, code, target, seen, made) ==
    [op |-> op, ident |-> ident, code |-> code, target |-> target, seen |-> seen, made |-> made]
Idle == Call("idle", [phone |-> "null", email |-> "null"], "null", 0, 0, 0)

(***************************************************************************)
(* State                                                                   *)
(***************************************************************************)
VARIABLES users, otps, sessions, clock, last, rotated, revoked, store, gate,
          providers, inquiries, portfolios, calls, tally

vars == <<users, otps, sessions, clock, last, rotated, revoked, store, gate,
          providers, inquiries, portfolios, calls, tally>>


Role == "PROVIDER"

\* generateId() returns a UUID no record has.  Records refer to each other
\* only by user id and users are never deleted, so an id that is new among
\* the records of its collection stands for it.
generateId(records) ==
    IF records = <<>> THEN 1
    ELSE 1 + CHOOSE m \in {records[i].id : i \in 1..Len(records)} :
                 \A i \in 1..Len(records) : records[i].id <= m

\* an account created as verified
User_Verified(id, email, phoneNumber, passwordHash, lastLoginAt, now) ==
    [id |-> id, email |-> email, phoneNumber |-> phoneNumber,
     passwordHash |-> passwordHash, role |-> Role, isVerified |-> TRUE,
     lastLoginAt |-> lastLoginAt, createdAt |-> now, updatedAt |-> now]

User(id, email, phoneNumber, passwordHash, lastLoginAt, now) ==
    [id |-> id, email |-> email, phoneNumber |-> phoneNumber,
     passwordHash |-> passwordHash, role |-> Role, isVerified |-> FALSE,
     lastLoginAt |-> lastLoginAt, createdAt |-> now, updatedAt |-> now]

Otp(id, userId, code, type, now) ==
    [id |-> id, userId |-> userId, code |-> code, type |-> type,
     expiresAt |-> getOtpExpiry(now), verified |-> FALSE, attempts |-> 0,
     createdAt |-> now]

\* a session stored without the token it was created for
Session_NoToken(id, userId, refreshToken, now) ==
    [id |-> id, userId |-> userId, refreshToken |-> NoToken,
     userAgent |-> NULL, ipAddress |-> NULL,
     expiresAt |-> PlusSec(now, SessionTtl), createdAt |-> now]

\* the record built by AuthService.createSession
Session(id, userId, refreshToken, now) ==
    [id |-> id, userId |-> userId, refreshToken |-> refreshToken,
     userAgent |-> NULL, ipAddress |-> NULL,
     expiresAt |-> PlusSec(now, SessionTtl), createdAt |-> now]

\* The outcome of the last engine call: its name and arguments, the error it
\* threw (NoError when it returned), the token pair it returned (code is
\* the OTP code given to verifyOtp, the password of a registration) and, in
\* otpId, for verifyOtp the id of the OTP record it selected (0 when none),
\* for logoutAll its userId, for the cleanups the number of records deleted.
Outcome(op, ident, code, token, err, tokens, otpId) ==
    [op |-> op, ident |-> ident, code |-> code, token |-> token,
     err |-> err, tokens |-> tokens, otpId |-> otpId]

NoIdent == [phone |-> NULL, email |-> NULL]

\* History of the calls that end sessions (revoked): the refresh tokens of
\* the sessions logout deleted and of the sessions logoutAll deleted.
NoneRevoked == [logout |-> {}, logoutAll |-> {}]

Init ==
    /\ users = <<>>
    /\ otps = <<>>
    /\ sessions = <<>>
    /\ clock = T(0, 0)
    /\ last = Outcome("none", NoIdent, NULL, NoToken, NoError, NoTokens, 0)
    /\ rotated = {}
    /\ revoked = NoneRevoked
    /\ store = [k \in Keys |-> NoRecord]
    /\ gate = NoGate
    /\ providers = <<>>
    /\ inquiries = <<>>
    /\ portfolios = <<>>
    /\ calls = [c \in Callers |-> Idle]
    /\ tally = [k \in Keys |-> NoTally]

(***************************************************************************)
(* AuthService (services/auth.service.ts)                                  *)
(***************************************************************************)
UserByEmail(email) == FindIndex({i \in 1..Len(users) : users[i].email = email})
\* the lookup by phone number finding nobody
UserByPhone_Never(phone) == 0

UserByPhone(phone) == FindIndex({i \in 1..Len(users) : users[i].phoneNumber = phone})
UserById(id) == FindIndex({i \in 1..Len(users) : users[i].id = id})

\* the update written to every record of the collection
UpdateAt_All(records, i, updates) ==
    [k \in DOMAIN records |->
        [f \in DOMAIN records[k] |-> IF f \in DOMAIN updates THEN updates[f] ELSE records[k][f]]]

\* db.update of one record, by index
UpdateAt(records, i, updates) ==
    [records EXCEPT ![i] = [f \in DOMAIN @ |-> IF f \in DOMAIN updates THEN updates[f] ELSE @[f]]]

\* the existence check left out
EmailTaken_Never(email) == FALSE

EmailTaken(email) == UserByEmail(email) # 0

registerWithEmail(email, password) ==
    IF EmailTaken(email)
    THEN /\ last' = Outcome("registerWithEmail", [phone |-> NULL, email |-> email], NULL,
                            NoToken, ConflictError("Email already registered"), NoTokens, 0)
         /\ UNCHANGED <<users, otps, sessions, clock, rotated, revoked, store, gate,
                        providers, inquiries, portfolios, calls, tally>>
    ELSE /\ \E salt \in Salts, otp \in Codes :
              LET user == User(generateId(users), email, NULL, hashPassword(password, salt), clock, clock)
                  tokens == generateTokenPair(user.id, user.role, clock)
              IN /\ users' = dbCreate(users, user)
                 /\ sessions' = dbCreate(sessions, Session(generateId(sessions), user.id, tokens.refreshToken, clock))
                 /\ otps' = dbCreate(otps, Otp(generateId(otps), user.id, otp, "REGISTER", clock))
                 /\ last' = Outcome("registerWithEmail", [phone |-> NULL, email |-> email], password,
                                    NoToken, NoError, tokens, 0)
         /\ UNCHANGED <<clock, rotated, revoked, store, gate,
                        providers, inquiries, portfolios, calls, tally>>

\* registerWithEmail as overlapping calls run it.  The read: the existence
\* check, after which the call waits for bcrypt (await hashPassword); code
\* carries the password.
registerRead(c, email, password) ==
    /\ calls[c].op \notin {"registerWithEmail", "refreshToken"}
    /\ IF EmailTaken(email)
       THEN /\ last' = Outcome("registerWithEmail", [phone |-> NULL, email |-> email], NULL,
                               NoToken, ConflictError("Email already registered"), NoTokens, 0)
            /\ UNCHANGED calls
       ELSE /\ calls' = [calls EXCEPT ![c] = Call("registerWithEmail",
                                                  [phone |-> NULL, email |-> email],
                                                  password, 0, 0, 0)]
            /\ UNCHANGED last
    /\ UNCHANGED <<users, otps, sessions, clock, rotated, revoked, store, gate,
                   providers, inquiries, portfolios, tally>>

\* the rest of the call, once the hash is there: the user, the session and
\* the OTP are created without a second look at the stored e-mails; the
\* session's id is a UUID no stored session has and no call in flight holds
registerWrite(c) ==
    /\ calls[c].op = "registerWithEmail"
    /\ \E salt \in Salts, otp \in Codes :
          LET user == User(generateId(users), calls[c].ident.email, NULL,
                           hashPassword(calls[c].code, salt), clock, clock)
              tokens == generateTokenPair(user.id, user.role, clock)
              held == {sessions[i].id : i \in 1..Len(sessions)}
                          \cup {calls[k].target : k \in Callers}
              sessionId == 1 + CHOOSE m \in held : \A n \in held : n <= m
          IN /\ users' = dbCreate(users, user)
             /\ sessions' = dbCreate(sessions, Session(sessionId, user.id,
                                                       tokens.refreshToken, clock))
             /\ otps' = dbCreate(otps, Otp(generateId(otps), user.id, otp, "REGISTER", clock))
             /\ last' = Outcome("registerWithEmail", calls[c].ident, calls[c].code,
                                NoToken, NoError, tokens, 0)
    /\ calls' = [calls EXCEPT ![c] = Idle]
    /\ UNCHANGED <<clock, rotated, revoked, store, gate,
                   providers, inquiries, portfolios, tally>>

\* the error loginWithEmail throws, NoError when it goes on to log in
loginError(email, password) ==
    LET i == UserByEmail(email)
    IN IF i = 0 THEN UnauthorizedError("Invalid email or password")
       ELSE IF users[i].passwordHash = NoHash THEN UnauthorizedError("Please login with phone OTP")
       ELSE IF ~comparePassword(password, users[i].passwordHash)
       THEN UnauthorizedError("Invalid email or password")
       ELSE NoError

loginWithEmail_EarlyStamp(email, password) ==
    LET err == loginError(email, password)
        i == UserByEmail(email)
    IN IF err # NoError
       THEN /\ users' = IF i = 0 THEN users ELSE UpdateAt(users, i, [lastLoginAt |-> clock])
            /\ last' = Outcome("loginWithEmail", [phone |-> NULL, email |-> email], NULL,
                               NoToken, err, NoTokens, 0)
            /\ UNCHANGED <<otps, sessions, clock, rotated, revoked, store, gate,
                           providers, inquiries, portfolios, calls, tally>>
       ELSE /\ LET tokens == generateTokenPair(users[i].id, users[i].role, clock)
               IN /\ users' = UpdateAt(users, i, [lastLoginAt |-> clock])
                  /\ sessions' = dbCreate(sessions, Session(generateId(sessions), users[i].id, tokens.refreshToken, clock))
                  /\ last' = Outcome("loginWithEmail", [phone |-> NULL, email |-> email], NULL,
                                     NoToken, NoError, tokens, 0)
            /\ UNCHANGED <<otps, clock, rotated, revoked, store, gate,
                           providers, inquiries, portfolios, calls, tally>>

loginWithEmail(email, password) ==
    LET err == loginError(email, password)
        i == UserByEmail(email)
    IN IF err # NoError
       THEN /\ last' = Outcome("loginWithEmail", [phone |-> NULL, email |-> email], NULL,
                               NoToken, err, NoTokens, 0)
            /\ UNCHANGED <<users, otps, sessions, clock, rotated, revoked, store, gate,
                           providers, inquiries, portfolios, calls, tally>>
       ELSE /\ LET tokens == generateTokenPair(users[i].id, users[i].role, clock)
               IN /\ users' = UpdateAt(users, i, [lastLoginAt |-> clock])
                  /\ sessions' = dbCreate(sessions, Session(generateId(sessions), users[i].id, tokens.refreshToken, clock))
                  /\ last' = Outcome("loginWithEmail", [phone |-> NULL, email |-> email], NULL,
                                     NoToken, NoError, tokens, 0)
            /\ UNCHANGED <<otps, clock, rotated, revoked, store, gate,
                           providers, inquiries, portfolios, calls, tally>>

sendPhoneOtp(phoneNumber) ==
    LET i == UserByPhone(phoneNumber)
        userId == IF i = 0 THEN generateId(users) ELSE users[i].id
    IN /\ users' = IF i = 0
                   THEN dbCreate(users, User(userId, NULL, phoneNumber, NoHash, NoTime, clock))
                   ELSE users
       /\ \E otp \in Codes :
            otps' = dbCreate(otps, Otp(generateId(otps), userId, otp, "LOGIN", clock))
       /\ last' = Outcome("sendPhoneOtp", [phone |-> phoneNumber, email |-> NULL], NULL,
                          NoToken, NoError, NoTokens, generateId(otps))
       /\ UNCHANGED <<sessions, clock, rotated, revoked, store, gate,
                      providers, inquiries, portfolios, calls, tally>>

sendEmailOtp(userId, email, type) ==
    /\ \E otp \in Codes :
         otps' = dbCreate(otps, Otp(generateId(otps), userId, otp, type, clock))
    /\ last' = Outcome("sendEmailOtp", [phone |-> NULL, email |-> email], NULL,
                       NoToken, NoError, NoTokens, generateId(otps))
    /\ UNCHANGED <<users, sessions, clock, rotated, revoked, store, gate,
                   providers, inquiries, portfolios, calls, tally>>

\* the user verifyOtp resolves from the identifier, 0 for null
ResolveUser(identifier) ==
    IF identifier.phone # NULL THEN UserByPhone(identifier.phone)
    ELSE IF identifier.email # NULL THEN UserByEmail(identifier.email)
    ELSE 0

\* the sort ascending: the oldest unverified OTP
LatestOtp_Oldest(userId) ==
    LET S == {i \in 1..Len(otps) : otps[i].userId = userId /\ ~otps[i].verified}
        M == {i \in S : \A j \in S : ~Before(otps[j].createdAt, otps[i].createdAt)}
    IN IF S = {} THEN 0 ELSE Min(M)

\* otpRecords.sort(by createdAt, descending)[0] over the unverified OTPs of
\* the user: the greatest createdAt, the earliest in the array among equals
\* (Array.prototype.sort is stable); 0 when there is none.
LatestOtp(userId) ==
    LET S == {i \in 1..Len(otps) : otps[i].userId = userId /\ ~otps[i].verified}
        M == {i \in S : \A j \in S : ~Before(otps[i].createdAt, otps[j].createdAt)}
    IN IF S = {} THEN 0 ELSE Min(M)

\* the threshold compared with > instead of >=
AttemptsExhausted_OffByOne(otp) == otp.attempts > 3

AttemptsExhausted(otp) == otp.attempts >= 3

\* a failed attempt counted twice
FailedAttempt_Twice(otp) == [attempts |-> otp.attempts + 2]

\* the update verifyOtp writes for a wrong code
FailedAttempt(otp) == [attempts |-> otp.attempts + 1]

\* the error verifyOtp throws, NoError when it goes on to log in
verifyOtpError(identifier, otpCode) ==
    LET u == ResolveUser(identifier)
        o == IF u = 0 THEN 0 ELSE LatestOtp(users[u].id)
    IN IF u = 0 THEN NotFoundError("User")
       ELSE IF o = 0 THEN BadRequestError("No OTP found. Please request a new one.")
       ELSE IF isOtpExpired(otps[o].expiresAt, clock)
       THEN BadRequestError("OTP has expired. Please request a new one.")
       ELSE IF AttemptsExhausted(otps[o])
       THEN BadRequestError("Too many failed attempts. Please request a new OTP.")
       ELSE IF otps[o].code # otpCode THEN BadRequestError("Invalid OTP")
       ELSE NoError

verifyOtp(identifier, otpCode) ==
    LET err == verifyOtpError(identifier, otpCode)
        u == ResolveUser(identifier)
        o == IF u = 0 THEN 0 ELSE LatestOtp(users[u].id)
        oid == IF o = 0 THEN 0 ELSE otps[o].id
    IN IF err # NoError
       THEN /\ otps' = IF err.message = "Invalid OTP"
                       THEN UpdateAt(otps, o, FailedAttempt(otps[o]))
                       ELSE otps
            /\ last' = Outcome("verifyOtp", identifier, otpCode, NoToken, err, NoTokens, oid)
            /\ UNCHANGED <<users, sessions, clock, rotated, revoked, store, gate,
                           providers, inquiries, portfolios, calls, tally>>
       ELSE /\ LET tokens == generateTokenPair(users[u].id, users[u].role, clock)
               IN /\ otps' = UpdateAt(otps, o, [verified |-> TRUE])
                  /\ users' = UpdateAt(users, u, [isVerified |-> TRUE, lastLoginAt |-> clock,
                                                  updatedAt |-> clock])
                  /\ sessions' = dbCreate(sessions, Session(generateId(sessions), users[u].id, tokens.refreshToken, clock))
                  /\ last' = Outcome("verifyOtp", identifier, otpCode, NoToken, NoError, tokens, oid)
            /\ UNCHANGED <<clock, rotated, revoked, store, gate,
                           providers, inquiries, portfolios, calls, tally>>

\* verifyOtp as overlapping calls run it.  The read: the user and the
\* latest OTP are looked up and the call waits (db.findWhere reads the otps
\* file when the collection is not cached yet); the call holds the OTP
\* object it found: target its id, seen its attempts.
verifyOtpRead(c, identifier, otpCode) ==
    LET u == ResolveUser(identifier)
        o == IF u = 0 THEN 0 ELSE LatestOtp(users[u].id)
    IN /\ calls[c].op # "verifyOtp"
       /\ IF u = 0
          THEN /\ last' = Outcome("verifyOtp", identifier, otpCode, NoToken,
                                  NotFoundError("User"), NoTokens, 0)
               /\ UNCHANGED calls
          ELSE IF o = 0
          THEN /\ last' = Outcome("verifyOtp", identifier, otpCode, NoToken,
                                  BadRequestError("No OTP found. Please request a new one."),
                                  NoTokens, 0)
               /\ UNCHANGED calls
          ELSE /\ calls' = [calls EXCEPT ![c] = Call("verifyOtp", identifier, otpCode,
                                                     otps[o].id, otps[o].attempts, 0)]
               /\ UNCHANGED last
       /\ UNCHANGED <<users, otps, sessions, clock, rotated, revoked, store, gate,
                      providers, inquiries, portfolios, tally>>

\* a wrong code counted from the stored attempts, not from those the call read
verifyOtpWrite_Reread(c) ==
    LET o == FindIndex({i \in 1..Len(otps) : otps[i].id = calls[c].target})
    IN /\ calls[c].op = "verifyOtp"
       /\ o # 0
       /\ otps[o].code # calls[c].code
       /\ ~AttemptsExhausted([attempts |-> calls[c].seen])
       /\ otps' = UpdateAt(otps, o, FailedAttempt(otps[o]))
       /\ last' = Outcome("verifyOtp", calls[c].ident, calls[c].code, NoToken,
                          BadRequestError("Invalid OTP"), NoTokens, calls[c].target)
       /\ calls' = [calls EXCEPT ![c].op = "verifyOtpDone"]
       /\ UNCHANGED <<users, sessions, clock, rotated, revoked, store, gate,
                      providers, inquiries, portfolios, tally>>

\* The rest of the call, on the OTP object it holds (held: unverified, with
\* the attempts the call read; the records the call read are the cached
\* collection when it goes on): the checks use the held attempts, and the
\* update is written over the held record, so the stored record ends as
\* the held one with the update.  The OTP is a stored one (no overlapping
\* call deletes OTPs); the call's place then reads verifyOtpDone.
verifyOtpWrite(c) ==
    LET o == FindIndex({i \in 1..Len(otps) : otps[i].id = calls[c].target})
        u == ResolveUser(calls[c].ident)
        held == [otps[o] EXCEPT !.attempts = calls[c].seen, !.verified = FALSE]
        err == IF isOtpExpired(otps[o].expiresAt, clock)
               THEN BadRequestError("OTP has expired. Please request a new one.")
               ELSE IF AttemptsExhausted(held)
               THEN BadRequestError("Too many failed attempts. Please request a new OTP.")
               ELSE IF otps[o].code # calls[c].code THEN BadRequestError("Invalid OTP")
               ELSE NoError
    IN /\ calls[c].op = "verifyOtp"
       /\ o # 0
       /\ calls' = [calls EXCEPT ![c].op = "verifyOtpDone"]
       /\ IF err # NoError
          THEN /\ otps' = IF err.message = "Invalid OTP"
                          THEN UpdateAt([otps EXCEPT ![o] = held], o, FailedAttempt(held))
                          ELSE otps
               /\ last' = Outcome("verifyOtp", calls[c].ident, calls[c].code, NoToken, err,
                                  NoTokens, calls[c].target)
               /\ UNCHANGED <<users, sessions>>
          ELSE LET tokens == generateTokenPair(users[u].id, users[u].role, clock)
               IN /\ otps' = UpdateAt([otps EXCEPT ![o] = held], o, [verified |-> TRUE])
                  /\ users' = UpdateAt(users, u, [isVerified |-> TRUE, lastLoginAt |-> clock,
                                                  updatedAt |-> clock])
                  /\ sessions' = dbCreate(sessions, Session(generateId(sessions), users[u].id,
                                                            tokens.refreshToken, clock))
                  /\ last' = Outcome("verifyOtp", calls[c].ident, calls[c].code, NoToken,
                                     NoError, tokens, calls[c].target)
       /\ UNCHANGED <<clock, rotated, revoked, store, gate,
                      providers, inquiries, portfolios, tally>>

\* the refresh tokens sessions hold, and those of the sessions of a user
TokensOfSessions == {sessions[i].refreshToken : i \in 1..Len(sessions)}
TokensOf(userId) ==
    {sessions[i].refreshToken : i \in {k \in 1..Len(sessions) : sessions[k].userId = userId}}

SessionByToken(refreshToken) ==
    FindIndex({i \in 1..Len(sessions) : sessions[i].refreshToken = refreshToken})

\* the error refreshToken throws, NoError when it goes on to rotate
refreshTokenError(refreshToken) ==
    LET i == SessionByToken(refreshToken)
    IN IF ~verifyRefreshToken(refreshToken, clock) THEN UnauthorizedError("Invalid refresh token")
       ELSE IF i = 0 THEN UnauthorizedError("Session not found")
       ELSE IF Before(sessions[i].expiresAt, clock)
       THEN UnauthorizedError("Session expired. Please login again.")
       ELSE IF UserById(refreshToken.userId) = 0 THEN UnauthorizedError("User not found")
       ELSE NoError

refreshToken(token) ==
    LET err == refreshTokenError(token)
        i == SessionByToken(token)
    IN IF err # NoError
       THEN /\ sessions' = IF err.message = "Session expired. Please login again."
                           THEN dbDelete(sessions, sessions[i].id)
                           ELSE sessions
            /\ last' = Outcome("refreshToken", NoIdent, NULL, token, err, NoTokens, 0)
            /\ UNCHANGED <<users, otps, clock, rotated, revoked, store, gate,
                           providers, inquiries, portfolios, calls, tally>>
       ELSE LET user == users[UserById(token.userId)]
                tokens == generateTokenPair(user.id, user.role, clock)
            IN /\ sessions' = UpdateAt(sessions, i, [refreshToken |-> tokens.refreshToken,
                                                     expiresAt |-> PlusSec(clock, SessionTtl)])
               /\ rotated' = rotated \cup {token}
               /\ last' = Outcome("refreshToken", NoIdent, NULL, token, NoError, tokens, 0)
               /\ UNCHANGED <<users, otps, clock, revoked, store, gate,
                              providers, inquiries, portfolios, calls, tally>>

\* refreshToken as overlapping calls run it.  The read: the token is
\* verified and its session found and checked, after which the call waits
\* (db.findById reads the users file when the collection is not cached
\* yet); ident carries the token presented, target the id of the session.
refreshTokenRead(c, token) ==
    LET err == refreshTokenError(token)
        i == SessionByToken(token)
    IN /\ calls[c].op \notin {"registerWithEmail", "refreshToken"}
       /\ IF err # NoError /\ err.message # "User not found"
          THEN /\ sessions' = IF err.message = "Session expired. Please login again."
                              THEN dbDelete(sessions, sessions[i].id)
                              ELSE sessions
               /\ last' = Outcome("refreshToken", NoIdent, NULL, token, err, NoTokens, 0)
               /\ UNCHANGED calls
          ELSE /\ calls' = [calls EXCEPT ![c] = Call("refreshToken", token, NULL,
                                                     sessions[i].id, 0, 0)]
               /\ UNCHANGED <<sessions, last>>
       /\ UNCHANGED <<users, otps, clock, rotated, revoked, store, gate,
                      providers, inquiries, portfolios, tally>>

\* the rest of the call: the user is looked up, the tokens are made and
\* the session is updated by its id; db.update finding no such session
\* returns null, which the call does not look at
refreshTokenWrite(c) ==
    LET token == calls[c].ident
        i == FindIndex({k \in 1..Len(sessions) : sessions[k].id = calls[c].target})
        u == UserById(token.userId)
    IN /\ calls[c].op = "refreshToken"
       /\ calls' = [calls EXCEPT ![c] = Idle]
       /\ IF u = 0
          THEN /\ last' = Outcome("refreshToken", NoIdent, NULL, token,
                                  UnauthorizedError("User not found"), NoTokens, 0)
               /\ UNCHANGED <<sessions, rotated>>
          ELSE LET tokens == generateTokenPair(users[u].id, users[u].role, clock)
               IN /\ sessions' = IF i = 0 THEN sessions
                                  ELSE UpdateAt(sessions, i,
                                                [refreshToken |-> tokens.refreshToken,
                                                 expiresAt |-> PlusSec(clock, SessionTtl)])
                  /\ rotated' = rotated \cup {token}
                  /\ last' = Outcome("refreshToken", NoIdent, NULL, token, NoError, tokens, 0)
       /\ UNCHANGED <<users, otps, clock, revoked, store, gate,
                      providers, inquiries, portfolios, tally>>

logout(token) ==
    /\ sessions' = dbDeleteWhere(sessions, {i \in 1..Len(sessions) : sessions[i].refreshToken = token})
    /\ revoked' = [revoked EXCEPT !.logout = @ \cup (TokensOfSessions \cap {token})]
    /\ last' = Outcome("logout", NoIdent, NULL, token, NoError, NoTokens, 0)
    /\ UNCHANGED <<users, otps, clock, rotated, store, gate,
                   providers, inquiries, portfolios, calls, tally>>

logoutAll(userId) ==
    /\ sessions' = dbDeleteWhere(sessions, {i \in 1..Len(sessions) : sessions[i].userId = userId})
    /\ revoked' = [revoked EXCEPT !.logoutAll = @ \cup TokensOf(userId)]
    /\ last' = Outcome("logoutAll", NoIdent, NULL, NoToken, NoError, NoTokens, userId)
    /\ UNCHANGED <<users, otps, clock, rotated, store, gate,
                   providers, inquiries, portfolios, calls, tally>>

cleanupExpiredOtps ==
    /\ otps' = dbDeleteWhere(otps, {i \in 1..Len(otps) : Before(otps[i].expiresAt, clock)})
    /\ last' = Outcome("cleanupExpiredOtps", NoIdent, NULL, NoToken, NoError, NoTokens,
                       Len(otps) - Len(otps'))
    /\ UNCHANGED <<users, sessions, clock, rotated, revoked, store, gate,
                   providers, inquiries, portfolios, calls, tally>>

\* the sweep taking the sessions at their instant of expiry too
cleanupExpiredSessions_AtExpiry ==
    /\ sessions' = dbDeleteWhere(sessions, {i \in 1..Len(sessions) : ~Before(clock, sessions[i].expiresAt)})
    /\ last' = Outcome("cleanupExpiredSessions", NoIdent, NULL, NoToken, NoError, NoTokens,
                       Len(sessions) - Len(sessions'))
    /\ UNCHANGED <<users, otps, clock, rotated, revoked, store, gate,
                   providers, inquiries, portfolios, calls, tally>>

cleanupExpiredSessions ==
    /\ sessions' = dbDeleteWhere(sessions, {i \in 1..Len(sessions) : Before(sessions[i].expiresAt, clock)})
    /\ last' = Outcome("cleanupExpiredSessions", NoIdent, NULL, NoToken, NoError, NoTokens,
                       Len(sessions) - Len(sessions'))
    /\ UNCHANGED <<users, otps, clock, rotated, revoked, store, gate,
                   providers, inquiries, portfolios, calls, tally>>

(***************************************************************************)
(* Slugs (utils/slug.ts)                                                   *)
(***************************************************************************)
\* String.prototype.toLowerCase on one character
ToLower(c) ==
    LET upper == "ABCDEFGHIJKLMNOPQRSTUVWXYZ"
        lower == "abcdefghijklmnopqrstuvwxyz"
        at == {i \in 1..26 : SubSeq(upper, i, i) = c}
    IN IF at = {} THEN c ELSE SubSeq(lower, Min(at), Min(at))

\* generateSlug from character i on, out being the slug made so far: a
\* letter or digit is kept in lower case, a run of blanks, underscores and
\* hyphens becomes one hyphen unless it leads or trails, and any other
\* character is dropped
RECURSIVE Slugify(_, _, _)
Slugify(text, i, out) ==
    LET c == ToLower(SubSeq(text, i, i))
        word == \E k \in 1..36 : SubSeq("abcdefghijklmnopqrstuvwxyz0123456789", k, k) = c
        hyphened == Len(out) > 0 /\ SubSeq(out, Len(out), Len(out)) = "-"
    IN IF i > Len(text)
       THEN IF hyphened THEN SubSeq(out, 1, Len(out) - 1) ELSE out
       ELSE IF word THEN Slugify(text, i + 1, out \o c)
       ELSE IF c \in {" ", "_", "-"} /\ Len(out) > 0 /\ ~hyphened
       THEN Slugify(text, i + 1, out \o "-")
       ELSE Slugify(text, i + 1, out)

generateSlug(text) == Slugify(text, 1, "")

\* the number of slugs generateUniqueSlug looks up before it gives up
SlugAttempts == 100

\* the base slug, then the base with -1, -2, ... : the first that no
\* provider has; when the base and -1 ... -99 are all taken, the base with
\* Date.now(), which is not looked up
generateUniqueSlug(businessName, now) ==
    LET baseSlug == generateSlug(businessName)
        candidate(n) == IF n = 0 THEN baseSlug ELSE baseSlug \o "-" \o ToString(n)
        free == {n \in 0..(SlugAttempts - 1) :
                    \A k \in 1..Len(providers) : providers[k].slug # candidate(n)}
    IN IF free # {} THEN candidate(Min(free))
       ELSE baseSlug \o "-" \o ToString(now.s * 1000 + now.ms)

(***************************************************************************)
(* ProviderService (services/provider.service.ts)                          *)
(***************************************************************************)
ProviderByUser(userId) == FindIndex({i \in 1..Len(providers) : providers[i].userId = userId})

\* providerService.create; otpId carries the userId
providerCreate(userId, businessName) ==
    /\ IF ProviderByUser(userId) # 0
       THEN /\ last' = Outcome("providerCreate", NoIdent, businessName, NoToken,
                               ConflictError("Provider profile already exists"), NoTokens, userId)
            /\ UNCHANGED providers
       ELSE /\ providers' = dbCreate(providers,
                                [id |-> generateId(providers), userId |-> userId,
                                 businessName |-> businessName,
                                 slug |-> generateUniqueSlug(businessName, clock),
                                 isActive |-> TRUE, createdAt |-> clock, updatedAt |-> clock])
            /\ last' = Outcome("providerCreate", NoIdent, businessName, NoToken, NoError,
                               NoTokens, userId)
    /\ UNCHANGED <<users, otps, sessions, clock, rotated, revoked, store, gate,
                   inquiries, portfolios, calls, tally>>

(***************************************************************************)
(* InquiryService (services/inquiry.service.ts)                            *)
(***************************************************************************)
\* inquiryService.create; otpId carries the providerId
inquiryCreate(providerId) ==
    LET p == FindIndex({i \in 1..Len(providers) : providers[i].id = providerId})
    IN /\ IF p = 0 \/ ~providers[p].isActive
          THEN /\ last' = Outcome("inquiryCreate", NoIdent, NULL, NoToken,
                                  NotFoundError("Provider"), NoTokens, providerId)
               /\ UNCHANGED inquiries
          ELSE /\ inquiries' = dbCreate(inquiries,
                                   [id |-> generateId(inquiries), providerId |-> providerId,
                                    status |-> "NEW", createdAt |-> clock, updatedAt |-> clock])
               /\ last' = Outcome("inquiryCreate", NoIdent, NULL, NoToken, NoError,
                                  NoTokens, providerId)
       /\ UNCHANGED <<users, otps, sessions, clock, rotated, revoked, store, gate,
                      providers, portfolios, calls, tally>>

\* the error updateStatus throws, NoError when it goes on to write
updateStatusError(userId, inquiryId) ==
    LET p == ProviderByUser(userId)
        q == FindIndex({i \in 1..Len(inquiries) : inquiries[i].id = inquiryId})
    IN IF p = 0 THEN NotFoundError("Provider profile")
       ELSE IF q = 0 THEN NotFoundError("Inquiry")
       ELSE IF inquiries[q].providerId # providers[p].id
       THEN ForbiddenError("You can only update your own inquiries")
       ELSE NoError

\* inquiryService.updateStatus; code carries the status, otpId the inquiryId
updateStatus(userId, inquiryId, status) ==
    LET err == updateStatusError(userId, inquiryId)
        q == FindIndex({i \in 1..Len(inquiries) : inquiries[i].id = inquiryId})
    IN /\ inquiries' = IF err # NoError THEN inquiries
                       ELSE UpdateAt(inquiries, q, [status |-> status, updatedAt |-> clock])
       /\ last' = Outcome("updateStatus", NoIdent, status, NoToken, err, NoTokens, inquiryId)
       /\ UNCHANGED <<users, otps, sessions, clock, rotated, revoked, store, gate,
                      providers, portfolios, calls, tally>>

(***************************************************************************)
(* PortfolioService (services/portfolio.service.ts).  displayOrder is <<n>>*)
(* for the number n and <<>> for undefined.                                *)
(***************************************************************************)
MAX_PORTFOLIO_ITEMS == 10

ItemsOf(providerId) == {i \in 1..Len(portfolios) : portfolios[i].providerId = providerId}

\* create up to the await inside db.create: the provider and the count are
\* read, the limit is checked and the item is built (made: its id, a UUID
\* no stored item and no item being created has)
portfolioCreateRead(c, userId) ==
    LET p == ProviderByUser(userId)
        existingCount == Cardinality(ItemsOf(providers[p].id))
        ids == {portfolios[i].id : i \in 1..Len(portfolios)} \cup {calls[k].made : k \in Callers}
        id == 1 + CHOOSE m \in ids \cup {0} : \A n \in ids : n <= m
    IN /\ calls[c] = Idle
       /\ IF p = 0
          THEN /\ last' = Outcome("portfolioCreate", NoIdent, NULL, NoToken,
                                  NotFoundError("Provider profile. Please create one first."),
                                  NoTokens, 0)
               /\ UNCHANGED calls
          ELSE IF existingCount >= MAX_PORTFOLIO_ITEMS
          THEN /\ last' = Outcome("portfolioCreate", NoIdent, NULL, NoToken,
                                  BadRequestError("Maximum 10 portfolio items allowed"),
                                  NoTokens, 0)
               /\ UNCHANGED calls
          ELSE /\ calls' = [calls EXCEPT ![c] = Call("portfolioCreate", NoIdent, NULL,
                                                     providers[p].id, existingCount, id)]
               /\ UNCHANGED last
       /\ UNCHANGED <<users, otps, sessions, clock, rotated, revoked, store, gate,
                      providers, inquiries, portfolios, tally>>

\* create from the push inside db.create on; otpId carries the item's id
portfolioCreateWrite(c) ==
    /\ calls[c].op = "portfolioCreate"
    /\ portfolios' = dbCreate(portfolios, [id |-> calls[c].made, providerId |-> calls[c].target,
                                           displayOrder |-> <<calls[c].seen>>])
    /\ calls' = [calls EXCEPT ![c] = Idle]
    /\ last' = Outcome("portfolioCreate", NoIdent, NULL, NoToken, NoError, NoTokens, calls[c].made)
    /\ UNCHANGED <<users, otps, sessions, clock, rotated, revoked, store, gate,
                   providers, inquiries, tally>>

\* the error update and delete throw for an item, NoError when they go on
portfolioItemError(userId, itemId, verb) ==
    LET p == ProviderByUser(userId)
        q == FindIndex({i \in 1..Len(portfolios) : portfolios[i].id = itemId})
    IN IF p = 0 THEN NotFoundError("Provider profile. Please create one first.")
       ELSE IF q = 0 THEN NotFoundError("Portfolio item")
       ELSE IF portfolios[q].providerId # providers[p].id
       THEN ForbiddenError("You can only " \o verb \o " your own portfolio items")
       ELSE NoError

\* update writes data.displayOrder whether the request gave one or not;
\* code carries nothing, otpId the item's id
portfolioUpdate(userId, itemId, displayOrder) ==
    LET err == portfolioItemError(userId, itemId, "update")
        q == FindIndex({i \in 1..Len(portfolios) : portfolios[i].id = itemId})
    IN /\ portfolios' = IF err # NoError THEN portfolios
                        ELSE UpdateAt(portfolios, q, [displayOrder |-> displayOrder])
       /\ last' = Outcome("portfolioUpdate", NoIdent, NULL, NoToken, err, NoTokens, itemId)
       /\ UNCHANGED <<users, otps, sessions, clock, rotated, revoked, store, gate,
                      providers, inquiries, calls, tally>>

\* remaining.sort((a, b) => a.displayOrder - b.displayOrder) over the
\* records at the indices S, as the place each gets: ascending and stable
\* when every displayOrder is a number; with an undefined displayOrder the
\* comparator yields NaN, is not consistent, and the order is
\* implementation-defined: any order
SortOutcomes(records, S) ==
    {rank \in [S -> 0..(Cardinality(S) - 1)] :
        /\ \A i, j \in S : i # j => rank[i] # rank[j]
        /\ (\A i \in S : records[i].displayOrder # <<>>)
              => \A i, j \in S :
                    rank[i] < rank[j]
                        <=> \/ records[i].displayOrder[1] < records[j].displayOrder[1]
                            \/ /\ records[i].displayOrder[1] = records[j].displayOrder[1]
                               /\ i < j}

\* delete, with the renumbering of the remaining items of the provider
portfolioDelete(userId, itemId) ==
    LET err == portfolioItemError(userId, itemId, "delete")
        after == dbDelete(portfolios, itemId)
        S == {i \in 1..Len(after) : after[i].providerId = providers[ProviderByUser(userId)].id}
    IN /\ IF err # NoError THEN UNCHANGED portfolios
          ELSE \E rank \in SortOutcomes(after, S) :
                  portfolios' = [i \in 1..Len(after) |->
                                    IF i \in S THEN [after[i] EXCEPT !.displayOrder = <<rank[i]>>]
                                    ELSE after[i]]
       /\ last' = Outcome("portfolioDelete", NoIdent, NULL, NoToken, err, NoTokens, itemId)
       /\ UNCHANGED <<users, otps, sessions, clock, rotated, revoked, store, gate,
                      providers, inquiries, calls, tally>>

(***************************************************************************)
(* authMiddleware (middleware/auth.middleware.ts)                          *)
(***************************************************************************)
\* an error thrown by jsonwebtoken's verify: no AppError, known by its name
JwtError(name) == [cls |-> name, name |-> name, message |-> name,
                   statusCode |-> 0, code |-> "", chain |-> {"Error"}]

\* the error authMiddleware passes to next(), NoError when it lets the
\* request through; NoToken stands for a request without a Bearer header
\* the check that also asks for a session of the token's user
authMiddlewareError_Session(token) ==
    IF token = NoToken THEN UnauthorizedError("No authentication token provided")
    ELSE IF token.secret # JwtSecret THEN JwtError("JsonWebTokenError")
    ELSE IF ~verifyAccessToken(token, clock) THEN JwtError("TokenExpiredError")
    ELSE IF UserById(token.userId) = 0 THEN UnauthorizedError("User not found")
    ELSE IF TokensOf(token.userId) = {} THEN UnauthorizedError("Session not found")
    ELSE NoError

authMiddlewareError(token) ==
    IF token = NoToken THEN UnauthorizedError("No authentication token provided")
    ELSE IF token.secret # JwtSecret THEN JwtError("JsonWebTokenError")
    ELSE IF ~verifyAccessToken(token, clock) THEN JwtError("TokenExpiredError")
    ELSE IF UserById(token.userId) = 0 THEN UnauthorizedError("User not found")
    ELSE NoError

\* otpId carries the id of the user attached to the request (0: none)
authMiddleware(token) ==
    /\ last' = Outcome("authMiddleware", NoIdent, NULL, token, authMiddlewareError(token), NoTokens,
                       IF authMiddlewareError(token) = NoError THEN token.userId ELSE 0)
    /\ UNCHANGED <<users, otps, sessions, clock, rotated, revoked, store, gate,
                   providers, inquiries, portfolios, calls, tally>>

(***************************************************************************)
(* Rate limiters (middleware/rateLimiter.middleware.ts)                    *)
(***************************************************************************)
WindowElapsed(record, now) == Before(record.resetTime, now)
\* the limit compared with >= instead of >
LimitExceeded_OffByOne(count, maxRequests) == count >= maxRequests

LimitExceeded(count, maxRequests) == count > maxRequests
\* Math.ceil(resetTime / 1000)
ResetHeader(resetTime) == resetTime.s + (IF resetTime.ms > 0 THEN 1 ELSE 0)
Max0(n) == IF n > 0 THEN n ELSE 0

\* the count that moves the end of the window with every request
Counted_Sliding(key, windowSeconds, now) ==
    IF store[key] = NoRecord \/ WindowElapsed(store[key], now)
    THEN [count |-> 1, resetTime |-> PlusSec(now, windowSeconds)]
    ELSE [count |-> store[key].count + 1, resetTime |-> PlusSec(now, windowSeconds)]

\* the record of the key after the call has counted the request
Counted(key, windowSeconds, now) ==
    IF store[key] = NoRecord \/ WindowElapsed(store[key], now)
    THEN [count |-> 1, resetTime |-> PlusSec(now, windowSeconds)]
    ELSE [store[key] EXCEPT !.count = @ + 1]

\* the message of the RateLimitError each limiter throws
LimitMessage(name, retryAfter) ==
    IF name = "rateLimiter"
    THEN "Too many requests. Please try again in " \o ToString(retryAfter) \o " seconds."
    ELSE "Too many login attempts. Please try again in "
         \o ToString((retryAfter + 59) \div 60) \o " minutes."

\* the body the two limiters share, apart from key, window and limit
Limiter(name, ip, key, windowSeconds, maxRequests) ==
    LET record == Counted(key, windowSeconds, clock)
        exceeded == LimitExceeded(record.count, maxRequests)
        retryAfter == CeilSecs(record.resetTime, clock)
    IN /\ record.count <= MaxHits
       /\ store' = [store EXCEPT ![key] = record]
       /\ tally' = [tally EXCEPT ![key] =
                       [resetTime |-> record.resetTime,
                        requests |-> (IF @.resetTime = record.resetTime THEN @.requests ELSE 0) + 1,
                        rejected |-> (IF @.resetTime = record.resetTime THEN @.rejected ELSE 0)
                                     + (IF exceeded THEN 1 ELSE 0)]]
       /\ gate' = GateOutcome(name, ip, key, ~exceeded, maxRequests,
                              Max0(maxRequests - record.count), ResetHeader(record.resetTime),
                              IF exceeded THEN retryAfter ELSE -1,
                              IF exceeded THEN RateLimitError(LimitMessage(name, retryAfter)) ELSE NoError)
       /\ UNCHANGED <<users, otps, sessions, clock, last, rotated, revoked,
                      providers, inquiries, portfolios, calls>>

rateLimiter(req) ==
    Limiter("rateLimiter", getClientIp(req), getClientIp(req), WindowSeconds, RateLimitMax)

authRateLimiter(req) ==
    Limiter("authRateLimiter", getClientIp(req), AuthKey(getClientIp(req)), AuthWindowSeconds,
            AuthMaxRequests)

\* the sweep that also deletes a record at the instant its window ends
cleanupInterval_AtReset ==
    /\ store' = [k \in Keys |-> IF store[k] # NoRecord /\ ~Before(clock, store[k].resetTime)
                                THEN NoRecord ELSE store[k]]
    /\ tally' = [k \in Keys |-> IF store'[k] = NoRecord THEN NoTally ELSE tally[k]]
    /\ UNCHANGED <<users, otps, sessions, clock, last, rotated, revoked, gate,
                   providers, inquiries, portfolios, calls>>

\* the setInterval sweep
cleanupInterval ==
    /\ store' = [k \in Keys |-> IF store[k] # NoRecord /\ Before(store[k].resetTime, clock)
                                THEN NoRecord ELSE store[k]]
    /\ tally' = [k \in Keys |-> IF store'[k] = NoRecord THEN NoTally ELSE tally[k]]
    /\ UNCHANGED <<users, otps, sessions, clock, last, rotated, revoked, gate,
                   providers, inquiries, portfolios, calls>>

(***************************************************************************)
(* The clock                                                               *)
(***************************************************************************)
\* the instants the clock visits: a second and the next one; the expiry of
\* an OTP issued at 0 and the second after it; the ends of rate-limit windows
SessionInstants == {T(s, 0) : s \in {0, 1}}
OtpInstants == {T(s, 0) : s \in {0, OtpExpirySeconds, OtpExpirySeconds + 1}}
GateInstants == {T(s, ms) : s \in {0, AuthWindowSeconds, 2 * AuthWindowSeconds}, ms \in {0, 1}}

Tick(instants) ==
    /\ \E t \in instants : Before(clock, t) /\ clock' = t
    /\ UNCHANGED <<users, otps, sessions, last, rotated, revoked, store, gate,
                   providers, inquiries, portfolios, calls, tally>>

(***************************************************************************)
(* Specifications                                                          *)
(***************************************************************************)
\* refresh-token strings a client may present: the tokens held by sessions,
\* the tokens already exchanged, an access token of each user, and a string
\* that is no token
PresentableTokens ==
    {sessions[i].refreshToken : i \in 1..Len(sessions)}
    \cup rotated
    \cup {GarbageToken}
    \cup {generateAccessToken(users[i].id, users[i].role, clock) : i \in 1..Len(users)}

Identifiers == {[phone |-> p, email |-> NULL] : p \in Phones}
                   \cup {[phone |-> NULL, email |-> e] : e \in Emails}

\* room for the records a successful call creates
RoomForSession == Len(sessions) < MaxSessions
RoomForOtp == Len(otps) < MaxOtps

Register == \E e \in Emails, p \in RegisterPasswords :
                /\ EmailTaken(e) \/ (RoomForSession /\ RoomForOtp)
                /\ registerWithEmail(e, p)
Login == \E e \in LoginEmails, p \in Passwords :
             /\ loginError(e, p) # NoError \/ RoomForSession
             /\ loginWithEmail(e, p)
SendPhoneOtp == \E p \in Phones : RoomForOtp /\ sendPhoneOtp(p)
VerifyOtp == \E id \in Identifiers, c \in Codes :
                 /\ verifyOtpError(id, c) # NoError \/ RoomForSession
                 /\ verifyOtp(id, c)
RefreshToken == \E t \in PresentableTokens : refreshToken(t)
Logout == \E t \in PresentableTokens : logout(t)
LogoutAll == \E i \in 1..Len(users) : logoutAll(users[i].id)
SessionTick == Tick(SessionInstants)
OtpTick == Tick(OtpInstants)

\* registration, password login and the life of sessions
NextSession ==
    \/ Register
    \/ Login
    \/ RefreshToken
    \/ Logout
    \/ LogoutAll
    \/ cleanupExpiredSessions
    \/ SessionTick

SpecSession == Init /\ [][NextSession]_vars

\* The store as DatabaseService.findAll loads it from data files that hold
\* an account with an e-mail address and no password hash (User.email and
\* User.passwordHash are both nullable: an OTP-only account).
InitStored ==
    /\ users = <<User(1, StoredEmail, "9876543210", NoHash, NoTime, T(0, 0))>>
    /\ otps = <<>>
    /\ sessions = <<>>
    /\ clock = T(0, 0)
    /\ last = Outcome("none", NoIdent, NULL, NoToken, NoError, NoTokens, 0)
    /\ rotated = {}
    /\ revoked = NoneRevoked
    /\ store = [k \in Keys |-> NoRecord]
    /\ gate = NoGate
    /\ providers = <<>>
    /\ inquiries = <<>>
    /\ portfolios = <<>>
    /\ calls = [c \in Callers |-> Idle]
    /\ tally = [k \in Keys |-> NoTally]

SpecStored == InitStored /\ [][NextSession]_vars

\* the life of OTPs
NextOtp ==
    \/ SendPhoneOtp
    \/ VerifyOtp
    \/ cleanupExpiredOtps
    \/ OtpTick

SpecOtp == Init /\ [][NextOtp]_vars

\* OTP verification by overlapping calls: each caller starts a call when
\* its last one has returned
NextRace ==
    \/ SendPhoneOtp
    \/ \E c \in Callers, p \in Phones, code \in Codes :
          verifyOtpRead(c, [phone |-> p, email |-> NULL], code)
    \/ \E c \in Callers :
          /\ RoomForSession
          /\ verifyOtpWrite(c)

SpecRace == Init /\ [][NextRace]_vars

\* registration and token rotation by overlapping calls, next to logout
NextOverlap ==
    \/ \E c \in Callers, e \in Emails : registerRead(c, e, "Secure123")
    \/ \E c \in Callers :
          /\ RoomForSession /\ RoomForOtp
          /\ registerWrite(c)
    \/ \E c \in Callers, t \in PresentableTokens : refreshTokenRead(c, t)
    \/ \E c \in Callers : refreshTokenWrite(c)
    \/ Logout
    \/ SessionTick

SpecOverlap == Init /\ [][NextOverlap]_vars

\* the data files after a restart: an account that signs in by OTP only, with
\* an OTP that ran out unused, and an account that holds a password
MemberEmail == "member@b.com"
InitFail ==
    /\ users = <<User(1, StoredEmail, "9876543210", NoHash, NoTime, T(0, 0)),
                 User(2, MemberEmail, NULL, hashPassword("Secure123", 1), NoTime, T(0, 0))>>
    /\ otps = <<Otp(1, 1, "111111", "LOGIN", T(0, 0))>>
    /\ sessions = <<>>
    /\ clock = T(OtpExpirySeconds + 1, 0)
    /\ last = Outcome("none", NoIdent, NULL, NoToken, NoError, NoTokens, 0)
    /\ rotated = {}
    /\ revoked = NoneRevoked
    /\ store = [k \in Keys |-> NoRecord]
    /\ gate = NoGate
    /\ providers = <<>>
    /\ inquiries = <<>>
    /\ portfolios = <<>>
    /\ calls = [c \in Callers |-> Idle]
    /\ tally = [k \in Keys |-> NoTally]

\* every engine call that can fail: registration of a taken address, a login
\* that is refused, and the OTP and refresh calls, until the OTPs run out
NextFail ==
    \/ \E e \in LoginEmails \cup {MemberEmail} :
          /\ EmailTaken(e)
          /\ registerWithEmail(e, "Secure123")
    \/ \E e \in LoginEmails \cup {MemberEmail} :
          /\ loginError(e, LongPassword) # NoError
          /\ loginWithEmail(e, LongPassword)
    \/ SendPhoneOtp
    \/ VerifyOtp
    \/ RefreshToken
    \/ Tick({T(2 * OtpExpirySeconds + 2, 0)})

SpecFail == InitFail /\ [][NextFail]_vars

GeneralRequest == \E r \in GeneralRequests : rateLimiter(r)
AuthRequest == \E r \in AuthRequests : authRateLimiter(r)
GateTick == Tick(GateInstants)

NextGate ==
    \/ GeneralRequest
    \/ AuthRequest
    \/ cleanupInterval
    \/ GateTick

SpecGate == Init /\ [][NextGate]_vars

\* accounts made by registration and by phone OTP side by side, at one instant
NextUsers ==
    \/ Register
    \/ SendPhoneOtp
    \/ VerifyOtp

SpecUsers == Init /\ [][NextUsers]_vars

\* A session outlives neither its token nor the reverse when both last 30
\* days.  config.jwt.refreshExpiresIn is read from JWT_REFRESH_EXPIRES_IN:
\* the data files here were written at instant 0 while it was '60d', and
\* hold an account and its session, whose token outlives the session.
LongRefreshExpiresIn == 2 * JwtRefreshExpiresIn
LongLivedToken == Sign(1, Role, JwtRefreshSecret, LongRefreshExpiresIn, T(0, 0))

InitStale ==
    /\ users = <<User(1, StoredEmail, NULL, hashPassword("Secure123", 1), T(0, 0), T(0, 0))>>
    /\ otps = <<>>
    /\ sessions = <<Session(1, 1, LongLivedToken, T(0, 0))>>
    /\ clock = T(0, 0)
    /\ last = Outcome("none", NoIdent, NULL, NoToken, NoError, NoTokens, 0)
    /\ rotated = {}
    /\ revoked = NoneRevoked
    /\ store = [k \in Keys |-> NoRecord]
    /\ gate = NoGate
    /\ providers = <<>>
    /\ inquiries = <<>>
    /\ portfolios = <<>>
    /\ calls = [c \in Callers |-> Idle]
    /\ tally = [k \in Keys |-> NoTally]

\* the expiry of a session created at 0, the millisecond after it, and the
\* second after it
StaleInstants == {T(SessionTtl, 0), T(SessionTtl, 1), T(SessionTtl + 1, 0)}
StaleTick == Tick(StaleInstants)

NextStale ==
    \/ Login
    \/ RefreshToken
    \/ cleanupExpiredSessions
    \/ StaleTick

SpecStale == InitStale /\ [][NextStale]_vars

\* bearer credentials on protected routes, next to the session calls
Authenticate == \E t \in PresentableTokens \cup {NoToken} : authMiddleware(t)

NextBearer ==
    \/ Register
    \/ Login
    \/ RefreshToken
    \/ Authenticate
    \/ SessionTick

SpecBearer == Init /\ [][NextBearer]_vars

\* the two cleanup jobs next to the calls that make what they sweep, from
\* the data files with the long-lived token; the clock visits the instant
\* at which an OTP sent then expires together with the stored session,
\* that instant of expiry, and the millisecond after it
SweepInstants ==
    {T(SessionTtl - OtpExpirySeconds, 0), T(SessionTtl, 0), T(SessionTtl, 1)}
SweepTick == Tick(SweepInstants)

NextSweep ==
    \/ SendPhoneOtp
    \/ Login
    \/ cleanupExpiredOtps
    \/ cleanupExpiredSessions
    \/ SweepTick

SpecSweep == InitStale /\ [][NextSweep]_vars

\* access tokens on protected routes while sessions end: every access token
\* the server signs for a stored user at an instant the clock has visited
AccessInstants == {T(0, 0)} \cup StaleInstants
AccessTokens ==
    {generateAccessToken(users[i].id, users[i].role, t) :
        i \in 1..Len(users), t \in {x \in AccessInstants : ~Before(clock, x)}}
Bearer == \E t \in AccessTokens \cup {NoToken, GarbageToken} : authMiddleware(t)

NextAccess ==
    \/ \E e \in LoginEmails :
          /\ loginError(e, "Secure123") # NoError \/ RoomForSession
          /\ loginWithEmail(e, "Secure123")
    \/ Logout
    \/ LogoutAll
    \/ cleanupExpiredSessions
    \/ Bearer
    \/ StaleTick

SpecAccess == InitStale /\ [][NextAccess]_vars

\* providers and the inquiries of their customers: the users that hold a
\* token, two business names with one slug, the four inquiry statuses
UserIds == {1, 2}
BusinessNames == {"Kumar's Carpentry", "kumars_carpentry "}
InquiryStatuses == {"NEW", "CONTACTED", "CONVERTED", "REJECTED"}

NextInquiry ==
    \/ \E u \in UserIds, n \in BusinessNames : providerCreate(u, n)
    \/ \E p \in UserIds : Len(inquiries) < MaxInquiries /\ inquiryCreate(p)
    \/ \E u \in UserIds, i \in 1..MaxInquiries, st \in InquiryStatuses : updateStatus(u, i, st)

SpecInquiry == Init /\ [][NextInquiry]_vars

\* A marketplace where the name is popular: SlugAttempts providers called
\* Kumar's Carpentry are stored, with the slug and its -1 ... -99 forms.
\* The clock reads more than SlugAttempts milliseconds, as any Date.now().
InitSlugs ==
    /\ users = <<>>
    /\ otps = <<>>
    /\ sessions = <<>>
    /\ clock = T(1, 0)
    /\ last = Outcome("none", NoIdent, NULL, NoToken, NoError, NoTokens, 0)
    /\ rotated = {}
    /\ revoked = NoneRevoked
    /\ store = [k \in Keys |-> NoRecord]
    /\ gate = NoGate
    /\ providers = [i \in 1..SlugAttempts |->
                      [id |-> i, userId |-> Cardinality(UserIds) + i,
                       businessName |-> "Kumar's Carpentry",
                       slug |-> IF i = 1 THEN "kumars-carpentry"
                                ELSE "kumars-carpentry-" \o ToString(i - 1),
                       isActive |-> TRUE, createdAt |-> T(0, 0), updatedAt |-> T(0, 0)]]
    /\ inquiries = <<>>
    /\ portfolios = <<>>
    /\ calls = [c \in Callers |-> Idle]
    /\ tally = [k \in Keys |-> NoTally]

\* Two more users open a profile under the name, a millisecond or a
\* second apart or within the same millisecond.
NextSlugs ==
    \/ \E u \in UserIds, n \in BusinessNames : providerCreate(u, n)
    \/ Tick({T(1, 1), T(2, 0)})

SpecSlugs == InitSlugs /\ [][NextSlugs]_vars

\* The data files of a marketplace in use: two providers, the first with
\* nine portfolio items, the second with four.
InitPortfolio ==
    /\ users = <<>>
    /\ otps = <<>>
    /\ sessions = <<>>
    /\ clock = T(0, 0)
    /\ last = Outcome("none", NoIdent, NULL, NoToken, NoError, NoTokens, 0)
    /\ rotated = {}
    /\ revoked = NoneRevoked
    /\ store = [k \in Keys |-> NoRecord]
    /\ gate = NoGate
    /\ providers = [u \in 1..2 |->
                      [id |-> u, userId |-> u, businessName |-> "Kumar's Carpentry",
                       slug |-> IF u = 1 THEN "kumars-carpentry" ELSE "kumars-carpentry-1",
                       isActive |-> TRUE, createdAt |-> T(0, 0), updatedAt |-> T(0, 0)]]
    /\ inquiries = <<>>
    /\ portfolios = [i \in 1..(MAX_PORTFOLIO_ITEMS + 3) |->
                       IF i < MAX_PORTFOLIO_ITEMS
                       THEN [id |-> i, providerId |-> 1, displayOrder |-> <<i - 1>>]
                       ELSE [id |-> i, providerId |-> 2,
                             displayOrder |-> <<i - MAX_PORTFOLIO_ITEMS>>]]
    /\ calls = [c \in Callers |-> Idle]
    /\ tally = [k \in Keys |-> NoTally]

\* Overlapping create calls of either user, while item ids stay within
\* MaxPortfolios.
NextPortfolio ==
    \/ \E c \in Callers, u \in UserIds :
          /\ \/ /\ \A i \in 1..Len(portfolios) : portfolios[i].id < MaxPortfolios
                /\ \A k \in Callers : calls[k].made < MaxPortfolios
             \/ Cardinality(ItemsOf(u)) >= MAX_PORTFOLIO_ITEMS
          /\ portfolioCreateRead(c, u)
    \/ \E c \in Callers : portfolioCreateWrite(c)

SpecPortfolio == InitPortfolio /\ [][NextPortfolio]_vars

\* The second provider arranges its portfolio, and reaches for the first
\* item of the other provider: an update that moves an item to the end or
\* leaves the order out, a delete.
NextArrange ==
    \/ \E i \in ItemsOf(2) \cup {1}, d \in {<<>>, <<MAX_PORTFOLIO_ITEMS - 1>>} :
          portfolioUpdate(2, portfolios[i].id, d)
    \/ \E i \in ItemsOf(2) \cup {1} : portfolioDelete(2, portfolios[i].id)

SpecArrange == InitPortfolio /\ [][NextArrange]_vars

\* the three ways in: registration, password login and OTP verification
NextEntry ==
    \/ Register
    \/ Login
    \/ SendPhoneOtp
    \/ VerifyOtp

SpecEntry == Init /\ [][NextEntry]_vars

(***************************************************************************)
(* Properties                                                              *)
(***************************************************************************)
\* a step in which the engine ran the named call (the clock stands still
\* and the outcome is that of the call)
Did(op) == clock' = clock /\ last'.op = op /\ store' = store /\ gate' = gate

\* a step in which one of the two limiters counted a request
LimiterStep ==
    /\ clock' = clock
    /\ gate'.limiter # "none"
    /\ \E k \in Keys : store'[k] # store[k] /\ store'[k] # NoRecord

Returned(op) == last.op = op /\ last.err = NoError
Threw(op) == last.op = op /\ last.err # NoError

\* C1: refresh-token rotation.  Every refresh token that was exchanged
\* successfully is refused from then on: presenting it again fails with
\* Unauthorized, at whatever moment the rotation happened.
C1_RotatedTokenRefused ==
    \A t \in rotated : refreshTokenError(t).cls = "UnauthorizedError"

\* C2: OTP single use.  Right after verifyOtp accepted a code, submitting
\* the same code for the same user again fails, whatever other OTPs the
\* user was issued before.
C2_ResubmitFails ==
    Returned("verifyOtp") => verifyOtpError(last.ident, last.code) # NoError

LockoutMessage == "Too many failed attempts. Please request a new OTP."

\* C3: OTP lockout.  Against the live, unexpired OTP of a user every wrong
\* code adds one to attempts while attempts < 3, and once attempts has
\* reached 3 every verifyOtp for that user, with the correct code too,
\* fails with the lockout BadRequest and changes nothing.
C3_Lockout ==
    [][Did("verifyOtp") /\ ResolveUser(last'.ident) # 0
          /\ LatestOtp(users[ResolveUser(last'.ident)].id) # 0
       => LET o == LatestOtp(users[ResolveUser(last'.ident)].id)
          IN ~Before(otps[o].expiresAt, clock)
             => /\ otps[o].attempts < 3 /\ otps[o].code # last'.code
                   => otps' = [otps EXCEPT ![o].attempts = @ + 1]
                /\ otps[o].attempts = 3
                   => /\ last'.err.cls = "BadRequestError"
                      /\ last'.err.message = LockoutMessage
                      /\ last'.tokens = NoTokens
                      /\ UNCHANGED <<users, otps, sessions>>
      ]_vars

\* C3 witness: the correct code was submitted to a locked-out OTP
C3_Witness ==
    /\ Threw("verifyOtp")
    /\ last.err.message = LockoutMessage
    /\ \E i \in 1..Len(otps) :
          otps[i].id = last.otpId /\ otps[i].code = last.code /\ otps[i].attempts = 3

\* C4: duplicate registration.  registerWithEmail with an email some stored
\* user has fails with Conflict and creates no user, session or OTP; with
\* an email no user has it succeeds, returns a token pair and stores the
\* user.
C4_DuplicateRegistration ==
    [][Did("registerWithEmail")
       => IF \E i \in 1..Len(users) : users[i].email = last'.ident.email
          THEN /\ last'.err.cls = "ConflictError"
               /\ last'.tokens = NoTokens
               /\ UNCHANGED <<users, sessions, otps>>
          ELSE /\ last'.err = NoError
               /\ verifyAccessToken(last'.tokens.accessToken, clock)
               /\ verifyRefreshToken(last'.tokens.refreshToken, clock)
               /\ Len(users') = Len(users) + 1
               /\ users'[Len(users')].email = last'.ident.email
      ]_vars

\* C4 witness: a registration was refused with Conflict
C4_Witness ==
    /\ Threw("registerWithEmail")
    /\ last.err.cls = "ConflictError"
    /\ \E i \in 1..Len(users) : users[i].email = last.ident.email

\* C5: every failure of loginWithEmail is an Unauthorized with the one
\* message "Invalid email or password".
C5_SameMessage ==
    Threw("loginWithEmail")
        => /\ last.err.cls = "UnauthorizedError"
           /\ last.err.message = "Invalid email or password"

\* the response the error middleware sends for the error of the last call
Response == errorMiddleware(last.err)

\* C6: error translation.  A typed error thrown by the engine reaches the
\* client with its own status and code.
C6_ErrorTranslation ==
    last.err # NoError /\ last.err.cls # "Error"
        => Response = [status |-> last.err.statusCode, code |-> last.err.code]

\* C7: the 11th auth request of a window is rejected with the 429 error and
\* a Retry-After that is a positive integer of at most 900.
C7_RetryAfter ==
    /\ gate.limiter = "authRateLimiter"
    /\ store[gate.key].count = AuthMaxRequests + 1
    => /\ ~gate.allowed
       /\ gate.err.statusCode = 429
       /\ gate.retryAfter >= 1
       /\ gate.retryAfter <= 900

ClientIps(requests) == {getClientIp(r) : r \in requests}

\* C9: the budgets are independent.  A request counted by the general
\* limiter changes no record of the auth limiter, and a request counted by
\* the auth limiter changes no record of the general limiter.
C9_Independent ==
    [][LimiterStep
       => /\ gate'.limiter = "rateLimiter"
             => \A ip \in ClientIps(AuthRequests) : store'[AuthKey(ip)] = store[AuthKey(ip)]
          /\ gate'.limiter = "authRateLimiter"
             => \A ip \in ClientIps(GeneralRequests) : store'[ip] = store[ip]
      ]_vars

\* C10: no two sessions hold the same refresh token.
C10_SessionTokensUnique ==
    \A i, j \in 1..Len(sessions) :
        i # j => sessions[i].refreshToken # sessions[j].refreshToken

\* C11: user identifiers are unique.  No two users share a non-null email
\* and no two share a non-null phone number, and sendPhoneOtp for a phone
\* number some user has creates no user.
C11_UniqueIdentifiers ==
    /\ [](\A i, j \in 1..Len(users) :
            i # j => /\ users[i].email # NULL => users[i].email # users[j].email
                     /\ users[i].phoneNumber # NULL
                            => users[i].phoneNumber # users[j].phoneNumber)
    /\ [][Did("sendPhoneOtp")
             /\ (\E i \in 1..Len(users) : users[i].phoneNumber = last'.ident.phone)
          => users' = users]_vars

\* C11 witness: a second OTP was sent to a phone number that had a user
\* already
C11_Witness ==
    /\ Returned("sendPhoneOtp")
    /\ \E i, j \in 1..Len(otps) :
          /\ i # j
          /\ otps[i].userId = otps[j].userId
          /\ users[UserByPhone(last.ident.phone)].id = otps[i].userId

\* the sessions that remain when the sessions at the given indices go
Remaining(gone) == Filter(sessions, (1..Len(sessions)) \ gone)

\* C12: logout.  logout(t) leaves no session holding t and every session
\* whose token differs from t as it was, and from then on refreshToken(t)
\* fails with Unauthorized.
C12_Logout ==
    /\ [][Did("logout")
          => /\ \A i \in 1..Len(sessions') : sessions'[i].refreshToken # last'.token
             /\ sessions' = Remaining({i \in 1..Len(sessions) :
                                          sessions[i].refreshToken = last'.token})
         ]_vars
    /\ [](\A t \in revoked.logout : refreshTokenError(t).cls = "UnauthorizedError")

\* C13: logoutAll(u) deletes every session of u and no session of another
\* user, and from then on refreshToken fails for the refresh tokens that
\* were issued to u (here: those of the deleted sessions).
C13_LogoutAll ==
    /\ [][Did("logoutAll")
          => sessions' = Remaining({i \in 1..Len(sessions) : sessions[i].userId = last'.otpId})
         ]_vars
    /\ [](\A t \in revoked.logoutAll : refreshTokenError(t).cls = "UnauthorizedError")

\* C14: refreshToken with a token that verifies, held by a session whose
\* expiry has passed, fails with Unauthorized, issues no tokens and deletes
\* exactly that session: all other sessions stay as they are.
C14_StaleSession ==
    [][/\ Did("refreshToken")
       /\ verifyRefreshToken(last'.token, clock)
       /\ SessionByToken(last'.token) # 0
       /\ Before(sessions[SessionByToken(last'.token)].expiresAt, clock)
       => /\ last'.err.cls = "UnauthorizedError"
          /\ last'.tokens = NoTokens
          /\ sessions' = Remaining({SessionByToken(last'.token)})
          /\ Len(sessions') = Len(sessions) - 1
          /\ UNCHANGED <<users, otps>>
      ]_vars

\* C14 witness: a stale session was refused and deleted while another
\* session stayed
C14_Witness ==
    /\ Threw("refreshToken")
    /\ last.err.message = "Session expired. Please login again."
    /\ SessionByToken(last.token) = 0
    /\ Len(sessions) >= 1

\* C15: token classes are not interchangeable.  No access token is accepted
\* by refreshToken (verifyRefreshToken) and no refresh token is accepted as
\* a bearer credential by authMiddleware (verifyAccessToken), for the pair
\* generateTokenPair makes for any user at any instant, for the pairs the
\* calls returned and for the tokens the sessions hold.
C15_TokenClasses ==
    /\ \A i \in 1..Len(users) :
          LET pair == generateTokenPair(users[i].id, users[i].role, clock)
          IN /\ ~verifyRefreshToken(pair.accessToken, clock)
             /\ ~verifyAccessToken(pair.refreshToken, clock)
             /\ refreshTokenError(pair.accessToken).message = "Invalid refresh token"
             /\ authMiddlewareError(pair.refreshToken).name = "JsonWebTokenError"
    /\ \A t \in TokensOfSessions : authMiddlewareError(t) # NoError
    /\ last.tokens # NoTokens
          => /\ refreshTokenError(last.tokens.accessToken) # NoError
             /\ authMiddlewareError(last.tokens.refreshToken) # NoError
    /\ last.op = "refreshToken" /\ last.token.secret = JwtSecret
          => last.err.cls = "UnauthorizedError"
    /\ last.op = "authMiddleware" /\ last.token.secret = JwtRefreshSecret
          => last.err # NoError

\* C15 witness: the refresh token of a live session was presented as a
\* bearer credential and refused
C15_Witness ==
    /\ last.op = "authMiddleware"
    /\ last.token \in TokensOfSessions
    /\ refreshTokenError(last.token) = NoError
    /\ last.err.name = "JsonWebTokenError"

\* C16: a user's isVerified is false at creation, turns true only in a
\* successful verifyOtp for that user, and never turns false again.
C16_VerifiedFlag ==
    [][/\ Len(users') >= Len(users)
       /\ \A i \in (Len(users) + 1)..Len(users') : ~users'[i].isVerified
       /\ \A i \in 1..Len(users) :
             /\ users'[i].id = users[i].id
             /\ users[i].isVerified => users'[i].isVerified
             /\ ~users[i].isVerified /\ users'[i].isVerified
                   => /\ Did("verifyOtp")
                      /\ last'.err = NoError
                      /\ ResolveUser(last'.ident) = i
      ]_vars

\* C16 witness: verifyOtp has verified one user while another, created
\* since, is unverified
C16_Witness ==
    /\ \E i, j \in 1..Len(users) : users[i].isVerified /\ ~users[j].isVerified
    /\ \E k \in 1..Len(otps) : otps[k].verified

ExpiredMessage == "OTP has expired. Please request a new one."

\* C17: OTP expiry.  When the clock is strictly past the expiry of the
\* selected OTP, verifyOtp fails with BadRequest, with the correct code
\* too, and changes neither attempts nor verified (nor anything else
\* stored); at the instant of expiry and before it, the correct code
\* against an OTP with attempts < 3 is accepted.
C17_OtpExpiry ==
    [][Did("verifyOtp") /\ ResolveUser(last'.ident) # 0
          /\ LatestOtp(users[ResolveUser(last'.ident)].id) # 0
       => LET o == LatestOtp(users[ResolveUser(last'.ident)].id)
          IN /\ Before(otps[o].expiresAt, clock)
                => /\ last'.err.cls = "BadRequestError"
                   /\ last'.err.message = ExpiredMessage
                   /\ last'.tokens = NoTokens
                   /\ UNCHANGED <<users, otps, sessions>>
             /\ ~Before(otps[o].expiresAt, clock) /\ otps[o].attempts < 3
                   /\ otps[o].code = last'.code
                => /\ last'.err = NoError
                   /\ otps' = [otps EXCEPT ![o].verified = TRUE]
      ]_vars

\* C17 witness: the correct code was refused because the OTP had expired
C17_Witness ==
    /\ Threw("verifyOtp")
    /\ last.err.message = ExpiredMessage
    /\ \E i \in 1..Len(otps) :
          /\ otps[i].id = last.otpId
          /\ otps[i].code = last.code
          /\ otps[i].attempts < 3
          /\ Before(otps[i].expiresAt, clock)

\* C18: verifyOtp checks the code only against the most recently created
\* unverified OTP of the resolved user.  The OTP it selects is unverified,
\* belongs to the user and none of the user's unverified OTPs was created
\* later; while that OTP is live (unexpired, attempts < 3), the code of an
\* older unverified OTP that is not the newer one's code fails as a wrong
\* code and counts against the newer OTP only; and sendPhoneOtp adds its
\* record and leaves every older record as it was.
C18_LatestOtpOnly ==
    [][/\ Did("verifyOtp") /\ ResolveUser(last'.ident) # 0
          => LET u == users[ResolveUser(last'.ident)].id
                 S == {i \in 1..Len(otps) : otps[i].userId = u /\ ~otps[i].verified}
             IN /\ S = {} => last'.otpId = 0 /\ last'.err.cls = "BadRequestError"
                /\ S # {}
                   => \E o \in S :
                        /\ otps[o].id = last'.otpId
                        /\ \A j \in S : ~Before(otps[o].createdAt, otps[j].createdAt)
                        /\ \A j \in S :
                              /\ Before(otps[j].createdAt, otps[o].createdAt)
                              /\ otps[j].code = last'.code
                              /\ otps[o].code # last'.code
                              /\ ~Before(otps[o].expiresAt, clock)
                              /\ otps[o].attempts < 3
                              => /\ last'.err.message = "Invalid OTP"
                                 /\ otps' = [otps EXCEPT ![o].attempts = @ + 1]
       /\ Did("sendPhoneOtp")
          => /\ Len(otps') = Len(otps) + 1
             /\ SubSeq(otps', 1, Len(otps)) = otps
      ]_vars

\* C18 witness: the code of an older unverified OTP was refused as a wrong
\* code while a newer unverified OTP existed
C18_Witness ==
    /\ Threw("verifyOtp")
    /\ last.err.message = "Invalid OTP"
    /\ \E o, j \in 1..Len(otps) :
          /\ otps[o].id = last.otpId
          /\ otps[j].userId = otps[o].userId
          /\ ~otps[j].verified
          /\ Before(otps[j].createdAt, otps[o].createdAt)
          /\ otps[j].code = last.code
          /\ otps[j].attempts = 0
          /\ otps[o].attempts = 1

\* C19: a wrong code against a live OTP (selected, unexpired, attempts < 3)
\* fails with BadRequest "Invalid OTP", adds exactly one to that OTP's
\* attempts and changes nothing else: no other OTP, no other field of the
\* OTP, no user, no session; it returns no tokens.
C19_WrongCode ==
    [][Did("verifyOtp") /\ ResolveUser(last'.ident) # 0
          /\ LatestOtp(users[ResolveUser(last'.ident)].id) # 0
       => LET o == LatestOtp(users[ResolveUser(last'.ident)].id)
          IN /\ ~Before(otps[o].expiresAt, clock)
             /\ otps[o].attempts < 3
             /\ otps[o].code # last'.code
             => /\ last'.err.cls = "BadRequestError"
                /\ last'.err.message = "Invalid OTP"
                /\ last'.tokens = NoTokens
                /\ Len(otps') = Len(otps)
                /\ \A i \in 1..Len(otps) :
                      otps'[i] = IF i = o THEN [otps[o] EXCEPT !.attempts = otps[o].attempts + 1]
                                 ELSE otps[i]
                /\ UNCHANGED <<users, sessions>>
      ]_vars

\* C19 witness: a wrong code was counted against one OTP while the user had
\* another unverified OTP, which stayed untouched
C19_Witness ==
    /\ Threw("verifyOtp")
    /\ last.err.message = "Invalid OTP"
    /\ \E o, j \in 1..Len(otps) :
          /\ o # j
          /\ otps[o].id = last.otpId
          /\ otps[o].attempts = 2
          /\ otps[o].code # last.code
          /\ otps[j].userId = otps[o].userId
          /\ otps[j].attempts = 0

\* C20: tokens before verification.  After a successful registerWithEmail,
\* with no verifyOtp since, the user is stored with isVerified = false, a
\* session of the user holds the returned refresh token, an unverified
\* REGISTER OTP of the user exists, and refreshToken with the returned
\* refresh token succeeds.
C20_TokensBeforeVerification ==
    Returned("registerWithEmail")
        => \E u \in 1..Len(users) :
             /\ users[u].email = last.ident.email
             /\ users[u].id = last.tokens.refreshToken.userId
             /\ ~users[u].isVerified
             /\ \E i \in 1..Len(sessions) :
                   /\ sessions[i].refreshToken = last.tokens.refreshToken
                   /\ sessions[i].userId = users[u].id
             /\ \E k \in 1..Len(otps) :
                   /\ otps[k].userId = users[u].id
                   /\ otps[k].type = "REGISTER"
                   /\ ~otps[k].verified
             /\ refreshTokenError(last.tokens.refreshToken) = NoError
             /\ authMiddlewareError(last.tokens.accessToken) = NoError

\* C20 witness: a registration has returned its tokens to an unverified
\* user and the clock has moved on
C20_Witness ==
    /\ Returned("registerWithEmail")
    /\ clock.s > last.tokens.refreshToken.iat
    /\ \A u \in 1..Len(users) : ~users[u].isVerified
    /\ refreshTokenError(last.tokens.refreshToken) = NoError

\* C21: each successful registerWithEmail, loginWithEmail and verifyOtp
\* adds exactly one session, with an id no session had, for the user it
\* logged in, holding the refresh token it returned, and leaves every
\* session there was as it was.
C21_OneNewSession ==
    [][/\ Did("registerWithEmail") \/ Did("loginWithEmail") \/ Did("verifyOtp")
       /\ last'.err = NoError
       => /\ Len(sessions') = Len(sessions) + 1
          /\ SubSeq(sessions', 1, Len(sessions)) = sessions
          /\ LET s == sessions'[Len(sessions')]
             IN /\ s.refreshToken = last'.tokens.refreshToken
                /\ \A i \in 1..Len(sessions) : sessions[i].id # s.id
                /\ \E u \in 1..Len(users') :
                      /\ users'[u].id = s.userId
                      /\ IF last'.ident.phone # NULL
                         THEN users'[u].phoneNumber = last'.ident.phone
                         ELSE users'[u].email = last'.ident.email
      ]_vars

\* C21 witness: verifyOtp has logged a user in while a session of another
\* user existed
C21_Witness ==
    /\ Returned("verifyOtp")
    /\ Len(sessions) = 2
    /\ sessions[2].refreshToken = last.tokens.refreshToken
    /\ sessions[1].userId # sessions[2].userId

\* C22: a successful refreshToken rewrites the refresh token and the expiry
\* of the session that held the presented token, and nothing else: that
\* session keeps its id, userId, createdAt and place, every other session,
\* user and OTP stays as it was, the number of sessions stays, and the
\* session now holds the refresh token that was returned.
C22_RefreshFrame ==
    [][Did("refreshToken") /\ last'.err = NoError
       => LET i == SessionByToken(last'.token)
          IN /\ i # 0
             /\ Len(sessions') = Len(sessions)
             /\ \A k \in 1..Len(sessions) : k # i => sessions'[k] = sessions[k]
             /\ sessions'[i] = [sessions[i] EXCEPT !.refreshToken = last'.tokens.refreshToken,
                                                    !.expiresAt = PlusSec(clock, SessionTtl)]
             /\ sessions'[i].id = sessions[i].id
             /\ sessions'[i].userId = sessions[i].userId
             /\ sessions'[i].createdAt = sessions[i].createdAt
             /\ UNCHANGED <<users, otps>>
      ]_vars

\* C22 witness: a token was exchanged for a different one, in a later
\* second than the session was created, while another session existed
C22_Witness ==
    /\ Returned("refreshToken")
    /\ last.tokens.refreshToken # last.token
    /\ Len(sessions) = 2
    /\ \E i \in 1..2 :
          /\ sessions[i].refreshToken = last.tokens.refreshToken
          /\ Before(sessions[i].createdAt, clock)
          /\ sessions[3 - i].refreshToken # last.tokens.refreshToken

\* C23: cleanupExpiredOtps and cleanupExpiredSessions delete exactly the
\* records whose expiry is strictly before the clock, report their number,
\* keep every other record as it was and in order, and touch nothing else;
\* no OTP they delete is one verifyOtp would accept at that instant and no
\* session they delete is one refreshToken would accept.
C23_Cleanup ==
    [][/\ Did("cleanupExpiredOtps")
          => LET kept == {i \in 1..Len(otps) : ~Before(otps[i].expiresAt, clock)}
             IN /\ Len(otps') = Cardinality(kept)
                /\ \A i \in kept : otps'[Cardinality({j \in kept : j <= i})] = otps[i]
                /\ last'.otpId = Len(otps) - Cardinality(kept)
                /\ \A i \in (1..Len(otps)) \ kept : \A id \in Identifiers, c \in Codes :
                      ~(/\ verifyOtpError(id, c) = NoError
                        /\ LatestOtp(users[ResolveUser(id)].id) = i)
                /\ UNCHANGED <<users, sessions>>
       /\ Did("cleanupExpiredSessions")
          => LET kept == {i \in 1..Len(sessions) : ~Before(sessions[i].expiresAt, clock)}
             IN /\ Len(sessions') = Cardinality(kept)
                /\ \A i \in kept : sessions'[Cardinality({j \in kept : j <= i})] = sessions[i]
                /\ last'.otpId = Len(sessions) - Cardinality(kept)
                /\ \A i \in (1..Len(sessions)) \ kept :
                      refreshTokenError(sessions[i].refreshToken) # NoError
                /\ UNCHANGED <<users, otps>>
      ]_vars

\* C23 witness: the session sweep has deleted the one expired session and
\* kept a later one, which refreshToken accepts, after the OTP sweep had
\* deleted the OTPs sent
C23_Witness ==
    /\ last.op = "cleanupExpiredSessions"
    /\ last.otpId = 1
    /\ Len(sessions) = 1
    /\ Before(clock, sessions[1].expiresAt)
    /\ refreshTokenError(sessions[1].refreshToken) = NoError
    /\ otps = <<>>
    /\ Len(users) = 2

\* C24: password round trip.  Right after registerWithEmail(e, p) has
\* succeeded, loginWithEmail(e, p) succeeds and loginWithEmail(e, q) fails
\* with Unauthorized for every password q other than p.
C24_PasswordRoundTrip ==
    Returned("registerWithEmail")
        => /\ loginError(last.ident.email, last.code) = NoError
           /\ \A q \in Passwords \ {last.code} :
                 loginError(last.ident.email, q).cls = "UnauthorizedError"

\* C25: inquiry status flow.  An inquiry starts NEW and its status only
\* moves NEW -> CONTACTED, CONTACTED -> CONVERTED or CONTACTED -> REJECTED.
C25_StatusFlow ==
    [][/\ \A i \in (Len(inquiries) + 1)..Len(inquiries') : inquiries'[i].status = "NEW"
       /\ \A i \in 1..Len(inquiries) :
             i <= Len(inquiries') /\ inquiries'[i].status # inquiries[i].status
                => <<inquiries[i].status, inquiries'[i].status>>
                       \in {<<"NEW", "CONTACTED">>, <<"CONTACTED", "CONVERTED">>,
                            <<"CONTACTED", "REJECTED">>}
      ]_vars

\* C26: a provider never has more than 10 portfolio items.
C26_PortfolioLimit ==
    \A p \in 1..Len(providers) : Cardinality(ItemsOf(providers[p].id)) <= MAX_PORTFOLIO_ITEMS

\* C27: after a delete completes, the remaining items of that provider have
\* the displayOrder values 0..n-1, each once, items that had a displayOrder
\* keep the relative order those gave them, and the items of other
\* providers are as they were.
C27_DeleteRenumbers ==
    [][(last'.op = "portfolioDelete" /\ last'.err = NoError)
          => LET owner == portfolios[FindIndex({i \in 1..Len(portfolios) :
                                                  portfolios[i].id = last'.otpId})].providerId
                 Rem == {i \in 1..Len(portfolios') : portfolios'[i].providerId = owner}
                 was(i) == CHOOSE k \in 1..Len(portfolios) : portfolios[k].id = portfolios'[i].id
             IN /\ Cardinality(Rem) = Cardinality(ItemsOf(owner)) - 1
                /\ \A k \in 0..(Cardinality(Rem) - 1) :
                      Cardinality({i \in Rem : portfolios'[i].displayOrder = <<k>>}) = 1
                /\ \A i, j \in Rem :
                      /\ portfolios[was(i)].displayOrder # <<>>
                      /\ portfolios[was(j)].displayOrder # <<>>
                      /\ portfolios[was(i)].displayOrder[1] < portfolios[was(j)].displayOrder[1]
                      => portfolios'[i].displayOrder[1] < portfolios'[j].displayOrder[1]
                /\ Filter(portfolios', {i \in 1..Len(portfolios') : portfolios'[i].providerId # owner})
                      = Filter(portfolios, {i \in 1..Len(portfolios) : portfolios[i].providerId # owner})
      ]_vars

\* C28: no two stored providers share a slug.
C28_SlugsUnique ==
    \A i, j \in 1..Len(providers) : i # j => providers[i].slug # providers[j].slug

\* C29: a wrong-code verifyOtp call writes the attempts it read plus one,
\* whatever the stored record holds by then, and is answered Invalid OTP.
C29_StaleAttemptWritten ==
    [][\A c \in Callers :
          (/\ calls[c].op = "verifyOtp"
           /\ calls'[c].op = "verifyOtpDone"
           /\ last'.err.message = "Invalid OTP")
             => \E o \in 1..Len(otps') :
                   /\ otps'[o].id = calls[c].target
                   /\ otps'[o].attempts = calls[c].seen + 1
      ]_vars

\* two wrong guesses that both read attempts 2 have returned; the OTP
\* holds attempts 3 after at least four wrong guesses
C29_Witness ==
    \E o \in 1..Len(otps) :
        /\ otps[o].attempts = 3
        /\ \A c \in Callers :
              /\ calls[c].op = "verifyOtpDone"
              /\ calls[c].target = otps[o].id
              /\ calls[c].code # otps[o].code
              /\ calls[c].seen = 2

\* C30: no increment is lost.  While a key has a record, its count is the
\* number of requests counted under the key in the running window, and the
\* number of them that were rejected is max(0, count - max) for the max of
\* a limiter that counts under the key.
C30_NoLostIncrement ==
    \A k \in Keys :
        store[k] # NoRecord
            => /\ store[k].count = tally[k].requests
               /\ \E m \in {RateLimitMax : r \in {q \in GeneralRequests : getClientIp(q) = k}}
                            \cup {AuthMaxRequests :
                                     r \in {q \in AuthRequests : AuthKey(getClientIp(q)) = k}} :
                      tally[k].rejected = Max0(tally[k].requests - m)

\* C31: no two users have the same e-mail address, overlapping
\* registrations included.
C31_OneUserPerEmail ==
    \A i, j \in 1..Len(users) :
        i # j /\ users[i].email # NULL => users[i].email # users[j].email

\* C32: a refresh token is exchanged at most once.  A refreshToken call
\* that returns a token pair presented a token no call had exchanged
\* before, and the refresh token it returns is held by a session then.
C32_ExchangedOnce ==
    [][(/\ \E c \in Callers : calls[c].op = "refreshToken" /\ calls'[c].op = "idle"
        /\ last'.op = "refreshToken"
        /\ last'.err = NoError)
          => /\ last'.token \notin rotated
             /\ \E i \in 1..Len(sessions') :
                   sessions'[i].refreshToken = last'.tokens.refreshToken
      ]_vars

\* C33: an OTP that verifyOtp accepts was not created before the previous
\* successful verifyOtp of its user (lastLoginAt of an account that signs
\* in by OTP only).
C33_NoOlderOtpAccepted ==
    [][\A o \in 1..Len(otps) :
          (/\ o <= Len(otps')
           /\ ~otps[o].verified
           /\ otps'[o].verified)
             => LET u == UserById(otps[o].userId)
                IN \/ users[u].lastLoginAt = NoTime
                   \/ ~Before(otps[o].createdAt, users[u].lastLoginAt)
      ]_vars

\* C34: the attempts of an OTP stay within 0..3 and never decrease, and an
\* OTP with attempts 3 is not marked verified.
C34_AttemptsMonotone ==
    [][\A o \in 1..Len(otps') :
          /\ otps'[o].attempts \in 0..3
          /\ otps'[o].attempts = 3 => ~otps'[o].verified
          /\ \A q \in 1..Len(otps) :
                otps[q].id = otps'[o].id => otps[q].attempts <= otps'[o].attempts
      ]_vars

C36_FailureFrame ==
    [][(last'.err # NoError)
          => /\ UNCHANGED users
             /\ last'.err.message # "Invalid OTP" => UNCHANGED otps
             /\ last'.err.message # "Session expired. Please login again." => UNCHANGED sessions
      ]_vars

\* a login refused for a wrong password, with OTPs and a session in the store
C36_Witness ==
    /\ last.op = "loginWithEmail"
    /\ last.ident.email = MemberEmail
    /\ last.err.message = "Invalid email or password"
    /\ Len(otps) > 1
    /\ Len(sessions) > 0

C38_SweepTransparent ==
    [][(/\ store' # store
        /\ \A k \in Keys : store'[k] \in {store[k], NoRecord})
          => \A k \in Keys, w \in {WindowSeconds, AuthWindowSeconds},
                t \in {x \in GateInstants : ~Before(x, clock)} :
                   Counted(k, w, t)' = Counted(k, w, t)
      ]_vars

\* the record of a blocked client swept away after its window
C38_Witness ==
    /\ gate.limiter # "none"
    /\ ~gate.allowed
    /\ store[gate.key] = NoRecord

\* C39: a request counted in a running window, rejected or not, raises the
\* count by one and leaves resetTime as the first request of the window set
\* it; the remaining header is never negative; the first request after
\* resetTime starts a window with count 1 and is admitted.
C39_WindowFixed ==
    [][LimiterStep
          => /\ gate'.remaining >= 0
             /\ (store[gate'.key] # NoRecord /\ ~WindowElapsed(store[gate'.key], clock))
                    => /\ store'[gate'.key].resetTime = store[gate'.key].resetTime
                       /\ store'[gate'.key].count = store[gate'.key].count + 1
             /\ (store[gate'.key] # NoRecord /\ WindowElapsed(store[gate'.key], clock))
                    => /\ store'[gate'.key].count = 1
                       /\ store'[gate'.key].resetTime =
                             PlusSec(clock, IF gate'.limiter = "rateLimiter"
                                            THEN WindowSeconds ELSE AuthWindowSeconds)
                       /\ gate'.allowed
      ]_vars

\* a client that kept sending while blocked: the second rejection in one
\* window, after the instant of the first request
C39_Witness ==
    /\ gate.limiter # "none"
    /\ ~gate.allowed
    /\ gate.remaining = 0
    /\ tally[gate.key].rejected >= 2
    /\ store[gate.key].resetTime = tally[gate.key].resetTime
    /\ Before(clock, store[gate.key].resetTime)
    /\ clock # T(0, 0)

====
